---- MODULE Spec2Model ----
(***************************************************************************)
(* Verification development for the ARES parallel runtime and the HLIR     *)
(* lowering: the condition-variable semaphore (runtime/CVSemaphore.h), the *)
(* C-ABI facade (runtime/runtime.cpp), the code emitted by the lowering    *)
(* (hlir/src/HLIR.cpp) and the thread pool the facade pushes onto.         *)
(*                                                                         *)
(* The module holds several state machines over one set of variables:      *)
(*   SpecSem   one CVSemaphore used by several threads, one step per       *)
(*             pthread call or statement of CVSemaphore.h;                 *)
(*   SpecPFor  the caller code emitted by lowerParallelFor_, linked with   *)
(*             the facade of runtime.cpp and run next to the pool workers; *)
(*   SpecRT    a client that drives the parallel-for facade through the    *)
(*             signatures runtime.cpp declares, the workers running the    *)
(*             body function built by the HLIRParallelFor constructor;     *)
(*   SpecTask  the lowered task call sites and the task wrapper running a  *)
(*             recursive task (fib) on the pool;                           *)
(*   SpecSynch create_synch for any 32-bit count, and the releases;        *)
(*   SpecPrio  a task and a parallel-for queued on one worker;             *)
(*   SpecPool  the thread pool alone, items of any priority;               *)
(*   SpecCap   SpecRT with a body that loads a captured outer value;       *)
(*   SpecGetModule  HLIRModule::getModule called from several threads;     *)
(*   SpecNaming     getModule and the create functions, one caller;        *)
(*   SpecLower      lowerToIR_ over the constructs of a module;            *)
(*   SpecRewrite    the capture of outer values by lowerParallelFor_;      *)
(*   SpecTaskLower  the loop of lowerTask_ over the calls of a task;       *)
(*   SpecTaskArgs   a lowered call of a task and its wrapper, executed;    *)
(*   SpecForce      a lowered task call, the await placed by lowerTask_    *)
(*                  and the wrapper releasing the future;                  *)
(*   SpecReduce     lowerParallelReduce_ and the caller it leaves;         *)
(*   FairSpecSemWake  acquire() and release() of one CVSemaphore, fair;    *)
(*   SpecCreate     the create functions and getModule, several threads;   *)
(*   SpecDispatch   MessageDispatcher and the Communicator barrier.        *)
(* Each specification leaves the variables of the others unchanged.        *)
(***************************************************************************)
EXTENDS Integers, Sequences, FiniteSets, TLC

\* ------------------------------------------------------------------------
\* Bounds of the model
\* ------------------------------------------------------------------------
NumThreads == 3
MaxOps == 4
MaxSpurious == 1
MaxLatch == 2
MaxInitCount == 2
MaxCap == 2
NumWorkers == 2
MaxIdx == 2
MaxNeg == 2
MaxOuter == 2
MaxFib == 3
MaxRel == 3
EdgeSpan == 3
MaxTasks == 2
MaxPush == 3
MaxPrio == 1
NumCallers == 2
NumIRModules == 2
MaxConstructs == 3
NumOuter == 2
MaxInsts == 2
MaxSites == 3
MaxArgs == 2
NumArgVals == 2
MaxTail == 3
MaxTrips == 2
MaxCaller == 4
MaxCreates == 2
NumUsers == 2
MaxSends == 2
MaxIncoming == 3
MaxGroup == 3

\* ------------------------------------------------------------------------
\* State
\* ------------------------------------------------------------------------
VARIABLES
  \* CVSemaphore
  count,        \* count_
  maxCount,     \* maxCount_
  mutex,        \* mutex_: 0 when free, else the thread that holds it
  pc,           \* per thread: position inside the current CVSemaphore call
  op,           \* per thread: the call in progress
  result,       \* per thread: value returned by the last finished call
  opsStarted,   \* number of calls started (bounded by MaxOps)
  spurious,     \* number of spurious wake-ups so far (bounded by MaxSpurious)
  \* history of the CVSemaphore (not program state)
  count0,       \* count passed to the constructor
  incs,         \* number of ++count_ executed by release()
  drops,        \* number of release() calls that skipped ++count_
  relDone,      \* number of release() calls that have returned
  decs,         \* number of --count_ executed
  \* parallel-for: caller frame
  cpc,          \* position of the caller
  lo,           \* range start (r[0])
  hi,           \* range end (r[1])
  outerV,       \* the caller's value captured by the body
  argsStruct,   \* the captured-args struct on the caller's stack
  idx,          \* *index.ptr, the induction variable of the queue loop
  \* parallel-for: runtime
  synchState,   \* the Synch: "none", "live" or "freed"
  synchCount,   \* count_ of the Synch's semaphore
  poolQueue,    \* work items of the pool in the order they are taken
  triples,      \* the FuncArg records allocated by queue_func, by number
  wpc,          \* per worker: position in the worker loop / body function
  witem,        \* per worker: the work item taken
  crashed,      \* the process has died
  written,      \* per index: number of writes of A[i] by body invocations
  \* parallel-for: history (not program state)
  createLog,    \* arguments of the create_synch calls made
  queueLog,     \* operand lists of the queue_func calls made
  finishCalls,  \* number of finish_func calls made
  lateWrites,   \* body writes executed after await_synch returned
  freedUse,     \* uses of the Synch or of a FuncArg after its delete
  \* tasks
  fibN,         \* the argument of the fib call made by the main thread
  awaitFirst,   \* which of the two calls in fib has its await placed first
  taskArgs,     \* the struct.func_args records allocated by call sites
  frame,        \* per worker: locals of the wrapper and of fib
  mpc,          \* position of the main thread
  mres,         \* the value the main thread loaded for its fib call
  \* captured values of a parallel-for
  capLoaded,    \* the values bodies have loaded for the captured value
  \* HLIR registries (hlir/src/HLIR.cpp)
  nextId,       \* _nextId
  moduleMap,    \* _moduleMap: per IR module its HLIRModule, 0 when absent
  moduleNameMap,\* _moduleNameMap: the pairs <<name, HLIRModule>>
  hmods,        \* the HLIRModule objects, in allocation order
  objs,         \* the construct objects, in allocation order
  gmutex,       \* _mutex: 0 when free, else the caller that holds it
  gpc,          \* per caller: position inside getModule
  gloc,         \* per caller: the argument and the locals of getModule
  returned,     \* what getModule has returned: caller, IR module, result
  \* HLIRModule::lowerToIR_ (hlir/src/HLIR.cpp)
  assertsOn,    \* the build: assert is compiled in (no NDEBUG)
  lowerList,    \* constructs_ of the module: the kind of each construct
  lowerState,   \* position of the caller of lowerToIR_
  lowerPos,     \* the construct the loop of lowerToIR_ is at
  lowerLog,     \* the lowering routines called, with their construct
  \* capture of outer values by lowerParallelFor_ (hlir/src/HLIR.cpp)
  rwInsts,      \* the instructions: their function and their operands
  rwInsts0,     \* the instructions as they were before the lowering
  rwUses,       \* per outer value its use list, most recent use first
  rwLoads,      \* per load created by the lowering its use list
  rwV,          \* the vector v filled by findExternalValues
  rwI,          \* the index i of the rewriting loop
  rwIt,         \* the use the iteration over vi->uses() is at
  rwFields,     \* what the caller stores into the fields of the struct
  rwPc,         \* position inside lowerParallelFor_
  \* lowerTask_: the uses of the task function
  tlSites,      \* the calls of the task function, in the order of its use list
  tlNArgs,      \* number of parameters of the task function
  tlItr,        \* itr: position in the use list, 0 at the end
  tlDangling,   \* the call that itr points into has been erased
  tlPc,         \* position inside lowerTask_
  \* a lowered call of a task function and the wrapper that serves it
  taArgs,       \* the operands of the call
  taMem,        \* the fields of the structure the call site allocates
  taSitePc,     \* position of the caller in the code of the call site
  taWrapPc,     \* position of the worker in hlir.task_wrapper, 0 before
  taQueue,      \* the item is in the queue of the pool
  taRegs,       \* the arguments the wrapper has loaded
  taCalls,      \* the argument lists the task function was called with
  taRet,        \* ret: what the call in the wrapper returned
  taVal,        \* retVal: what the caller loaded after the await
  \* a task call whose result is used later in the caller
  fcTail,       \* the instructions after the call, in program order
  fcUseList,    \* the use list of the call: positions in fcTail, head first
  fcTrips,      \* number of times the instructions after the call are run
  fcCode,       \* the instructions after the call once it is lowered
  fcPc,         \* position of the caller: lower, call, run, done
  fcIp,         \* next instruction of fcCode
  fcTrip,       \* the run of fcCode in progress
  fcFuture,     \* count of the semaphore of the future
  fcQueued,     \* the item is in the queue of the pool
  fcWpc,        \* position of the worker in hlir.task_wrapper
  fcRetVal,     \* retVal in the caller: undef, garbage or result
  fcSlot,       \* field 2 of the structure: garbage or result
  fcReads,      \* what each executed use of the result has read
  fcCalls,      \* counters of the runtime calls made
  \* lowerParallelReduce_: a caller with the marker of a reduce
  rdCaller,     \* the instructions of the caller
  rdBody,       \* the instructions of hlir.parallel_reduce.body
  rdCaller0,    \* the caller before the lowering
  rdPc,         \* position: lower, run, done
  rdIp,         \* next instruction of the caller
  rdQueued,     \* number of body items the caller has queued
  \* createParallelFor / createParallelReduce / createTask called concurrently
  crPc,         \* where each thread is in its create call
  crLoc,        \* its locals: the module, the construct, the end of constructs_ and the id it read
  \* MessageDispatcher and Communicator (runtime/runtime.cpp)
  dsSendQ,      \* sendQueue_
  dsSendSem,    \* the count of sendSem_
  dsSendMu,     \* the owner of sendMutex_, 0 when free
  dsRecvQ,      \* receiveQueue_
  dsRecvSem,    \* the count of receiveSem_
  dsRecvMu,     \* the owner of receiveMutex_, 0 when free
  dsUser,       \* each calling thread: where it is, the call it is in, its message
  dsSender,     \* the thread running runSend: where it is, its message
  dsRecver,     \* the thread running runReceive: where it is, its message
  dsMade,       \* messages passed to send() so far
  dsArrived,    \* messages that arrived on the receive channel so far
  dsSent,       \* the messages in the order send() pushed them
  dsWire,       \* the messages written to the send channel, in order
  dsGot,        \* the messages receive() returned, in order
  dsPopEmpty,   \* front() / pop_front() ran on an empty deque
  dsGroup,      \* the groupSize given to init, 0 before init
  dsBarrier,    \* the count of barrier_->sem_
  dsBarMsgs,    \* barrier messages handled so far
  dsBarReturns  \* dsBarMsgs at each return of barrier()

semVars == <<count, maxCount, mutex, pc, op, result, opsStarted, spurious,
             count0, incs, drops, relDone, decs>>

pforVars == <<cpc, lo, hi, outerV, argsStruct, idx, synchState, synchCount,
              poolQueue, triples, wpc, witem, crashed, written,
              createLog, queueLog, finishCalls, lateWrites, freedUse>>

taskVars == <<fibN, awaitFirst, taskArgs, frame, mpc, mres>>

capVars == <<capLoaded>>

hlirVars == <<nextId, moduleMap, moduleNameMap, hmods, objs, gmutex, gpc,
              gloc, returned>>

lowerVars == <<assertsOn, lowerList, lowerState, lowerPos, lowerLog>>

rwVars == <<rwInsts, rwInsts0, rwUses, rwLoads, rwV, rwI, rwIt, rwFields, rwPc>>

tlVars == <<tlSites, tlNArgs, tlItr, tlDangling, tlPc>>

taVars == <<taArgs, taMem, taSitePc, taWrapPc, taQueue, taRegs, taCalls, taRet, taVal>>

fcVars == <<fcTail, fcUseList, fcTrips, fcCode, fcPc, fcIp, fcTrip, fcFuture, fcQueued, fcWpc, fcRetVal, fcSlot, fcReads, fcCalls>>

rdVars == <<rdCaller, rdBody, rdCaller0, rdPc, rdIp, rdQueued>>

crVars == <<crPc, crLoc>>

dsVars == <<dsSendQ, dsSendSem, dsSendMu, dsRecvQ, dsRecvSem, dsRecvMu, dsUser, dsSender, dsRecver, dsMade, dsArrived, dsSent, dsWire, dsGot, dsPopEmpty, dsGroup, dsBarrier, dsBarMsgs, dsBarReturns>>

vars == <<semVars, pforVars, taskVars, capVars, hlirVars, lowerVars, rwVars, tlVars, taVars, fcVars, rdVars, crVars, dsVars>>

\* what the CVSemaphore machine leaves alone, what the parallel-for
\* machines leave alone, and what the task machine leaves alone
notSem == <<pforVars, taskVars, capVars, hlirVars, lowerVars, rwVars, tlVars, taVars, fcVars, rdVars, crVars, dsVars>>
notPFor == <<semVars, taskVars, capVars, hlirVars, lowerVars, rwVars, tlVars, taVars, fcVars, rdVars, crVars, dsVars>>
notCapture == <<semVars, taskVars, hlirVars, lowerVars, rwVars, tlVars, taVars, fcVars, rdVars, crVars, dsVars>>
notHLIR == <<semVars, pforVars, taskVars, capVars, lowerVars, rwVars, tlVars, taVars, fcVars, rdVars, crVars, dsVars>>
notLower == <<semVars, pforVars, taskVars, capVars, hlirVars, rwVars, tlVars, taVars, fcVars, rdVars, crVars, dsVars>>
notRewrite == <<semVars, pforVars, taskVars, capVars, hlirVars, lowerVars, tlVars, taVars, fcVars, rdVars, crVars, dsVars>>
notTaskLower == <<semVars, pforVars, taskVars, capVars, hlirVars, lowerVars, rwVars, taVars, fcVars, rdVars, crVars, dsVars>>
notTaskArgs == <<semVars, pforVars, taskVars, capVars, hlirVars, lowerVars, rwVars, tlVars, fcVars, rdVars, crVars, dsVars>>
notForce == <<semVars, pforVars, taskVars, capVars, hlirVars, lowerVars, rwVars, tlVars, taVars, rdVars, crVars, dsVars>>
notReduce == <<semVars, pforVars, taskVars, capVars, hlirVars, lowerVars, rwVars, tlVars, taVars, fcVars, crVars, dsVars>>
notCreate == <<semVars, pforVars, taskVars, capVars, hlirVars, lowerVars, rwVars, tlVars, taVars, fcVars, rdVars, dsVars>>
notCreateHLIR == <<semVars, pforVars, taskVars, capVars, lowerVars, rwVars, tlVars, taVars, fcVars, rdVars, dsVars>>
notDispatch == <<semVars, pforVars, taskVars, capVars, hlirVars, lowerVars, rwVars, tlVars, taVars, fcVars, rdVars, crVars>>
notTask == <<semVars, cpc, lo, hi, outerV, argsStruct, idx, synchState,
             synchCount, triples, crashed, written, createLog, queueLog,
             finishCalls, lateWrites, freedUse, capVars, hlirVars,
             lowerVars, rwVars, tlVars, taVars, fcVars, rdVars, crVars, dsVars>>

Threads == 1..NumThreads

Min(a, b) == IF a < b THEN a ELSE b
Max(a, b) == IF a > b THEN a ELSE b

\* ------------------------------------------------------------------------
\* CVSemaphore (runtime/CVSemaphore.h)
\* ------------------------------------------------------------------------

\* CVSemaphore(int count, int maxCount); CVSemaphore(int count) is maxCount 0.
\* Any pair of ints is accepted: counts from the latch -(MaxLatch - 1) up,
\* caps from -1 up.
SemConstructed ==
  /\ count0 \in (1 - MaxLatch)..MaxInitCount
  /\ count = count0
  /\ maxCount \in (-1)..MaxCap
  /\ mutex = 0
  /\ pc = [t \in Threads |-> "idle"]
  /\ op = [t \in Threads |-> "none"]
  /\ result = [t \in Threads |-> "none"]
  /\ opsStarted = 0
  /\ spurious = 0
  /\ incs = 0
  /\ drops = 0
  /\ relDone = 0
  /\ decs = 0

\* what a worker holds before it has taken a work item
NoItem ==
  [fn |-> [tag |-> "none", v |-> 0], arg |-> 0,
   priority |-> [tag |-> "i32", v |-> 0]]

\* the parallel-for machine before anything has been emitted or run
PForParked ==
  /\ cpc = "parked"
  /\ lo = 0
  /\ hi = 0
  /\ outerV = 0
  /\ argsStruct = <<>>
  /\ idx = 0
  /\ synchState = "none"
  /\ synchCount = 0
  /\ poolQueue = <<>>
  /\ triples = <<>>
  /\ wpc = [w \in 1..NumWorkers |-> "idle"]
  /\ witem = [w \in 1..NumWorkers |-> NoItem]
  /\ crashed = FALSE
  /\ written = [i \in (0 - MaxNeg)..MaxIdx |-> 0]
  /\ createLog = <<>>
  /\ queueLog = <<>>
  /\ finishCalls = 0
  /\ lateWrites = 0
  /\ freedUse = 0

\* no frame: zeroes
NoFrame == [i |-> 0, c1 |-> 0, c2 |-> 0, v1 |-> 0, v2 |-> 0, retv |-> 0]

\* the task machine before the main thread calls a task
TaskParked ==
  /\ fibN = 0
  /\ awaitFirst = 1
  /\ taskArgs = <<>>
  /\ frame = [w \in 1..NumWorkers |-> NoFrame]
  /\ mpc = "parked"
  /\ mres = 0

\* no body has loaded a captured value
CaptureParked == capLoaded = {}

\* the HLIR registries as the static initialisers leave them
Callers == 1..NumCallers
IRModules == 1..NumIRModules
NoLocals == [module |-> 0, m |-> 0]

HLIRParked ==
  /\ nextId = 0
  /\ moduleMap = [ir \in IRModules |-> 0]
  /\ moduleNameMap = {}
  /\ hmods = <<>>
  /\ objs = <<>>
  /\ gmutex = 0
  /\ gpc = [t \in Callers |-> "idle"]
  /\ gloc = [t \in Callers |-> NoLocals]
  /\ returned = {}

\* lowerToIR_ has not been called
LowerParked ==
  /\ assertsOn = TRUE
  /\ lowerList = <<>>
  /\ lowerState = "idle"
  /\ lowerPos = 0
  /\ lowerLog = <<>>

\* a use is <<user, operand number>>; NoUse is the end of a use list
NoUse == <<0, 0>>

\* lowerParallelFor_ has not been given a body
RewriteParked ==
  /\ rwInsts = <<>>
  /\ rwInsts0 = <<>>
  /\ rwUses = <<>>
  /\ rwLoads = <<>>
  /\ rwV = <<>>
  /\ rwI = 0
  /\ rwIt = NoUse
  /\ rwFields = <<>>
  /\ rwPc = "parked"

TaskLowerParked ==
  /\ tlSites = <<>>
  /\ tlNArgs = 0
  /\ tlItr = 0
  /\ tlDangling = FALSE
  /\ tlPc = "parked"

TaskArgsParked ==
  /\ taArgs = <<>>
  /\ taMem = <<>>
  /\ taSitePc = 0
  /\ taWrapPc = 0
  /\ taQueue = FALSE
  /\ taRegs = <<>>
  /\ taCalls = <<>>
  /\ taRet = 0
  /\ taVal = 0

ForceParked ==
  /\ fcTail = <<>>
  /\ fcUseList = <<>>
  /\ fcTrips = 0
  /\ fcCode = <<>>
  /\ fcPc = "parked"
  /\ fcIp = 0
  /\ fcTrip = 0
  /\ fcFuture = 0
  /\ fcQueued = FALSE
  /\ fcWpc = "parked"
  /\ fcRetVal = "undef"
  /\ fcSlot = "garbage"
  /\ fcReads = <<>>
  /\ fcCalls = [queue |-> 0, await |-> 0, awaited |-> 0, release |-> 0]

ReduceParked ==
  /\ rdCaller = <<>>
  /\ rdBody = <<>>
  /\ rdCaller0 = <<>>
  /\ rdPc = "parked"
  /\ rdIp = 0
  /\ rdQueued = 0

\* no thread is inside a create call
NoCreate == [h |-> 0, c |-> 0, end |-> 0, id |-> 0]

CreateParked ==
  /\ crPc = [t \in 1..NumCallers |-> "idle"]
  /\ crLoc = [t \in 1..NumCallers |-> NoCreate]

\* a message is <<type, number>>; NoMsg is no message in hand
NoMsg == <<"none", 0>>
Users == 1..NumUsers
SendThread == NumUsers + 1
ReceiveThread == NumUsers + 2

\* the dispatcher as constructed (both VSems at count 0, both deques
\* empty), its two threads not started, init not called
DispatchParked ==
  /\ dsSendQ = <<>>
  /\ dsSendSem = 0
  /\ dsSendMu = 0
  /\ dsRecvQ = <<>>
  /\ dsRecvSem = 0
  /\ dsRecvMu = 0
  /\ dsUser = [u \in Users |-> [pc |-> "idle", op |-> "none", msg |-> NoMsg]]
  /\ dsSender = [pc |-> "parked", msg |-> NoMsg]
  /\ dsRecver = [pc |-> "parked", msg |-> NoMsg]
  /\ dsMade = 0
  /\ dsArrived = 0
  /\ dsSent = <<>>
  /\ dsWire = <<>>
  /\ dsGot = <<>>
  /\ dsPopEmpty = FALSE
  /\ dsGroup = 0
  /\ dsBarrier = 0
  /\ dsBarMsgs = 0
  /\ dsBarReturns = <<>>

\* the semaphore of the CVSemaphore machine, untouched by the others
SemParked == SemConstructed /\ maxCount = 0 /\ count0 = 0

InitSem ==
  /\ SemConstructed
  /\ PForParked
  /\ TaskParked
  /\ CaptureParked
  /\ HLIRParked
  /\ DispatchParked
  /\ CreateParked
  /\ ReduceParked
  /\ ForceParked
  /\ TaskArgsParked
  /\ TaskLowerParked
  /\ RewriteParked
  /\ LowerParked

\* threads blocked inside pthread_cond_wait / pthread_cond_timedwait
Waiters == {t \in Threads : pc[t] = "wait"}

\* while(count_ <= 0)
AcquireMustWaitOff == count < 0
AcquireMustWait == count <= 0

\* if(count_ > 0) of tryAcquire
TryAcquireAvailableOff == count >= 0
TryAcquireAvailable == count > 0

\* if(maxCount_ == 0 || count_ < maxCount_)
ReleaseMayIncrementOff == maxCount = 0 \/ count <= maxCount
ReleaseMayIncrementEq == maxCount = 0 \/ count /= maxCount
ReleaseMayIncrement == maxCount = 0 \/ count < maxCount

semHist == <<spurious, count0, incs, drops, relDone, decs>>

\* a thread calls acquire(), acquire(dt), tryAcquire() or release()
Call(t, o) ==
  /\ pc[t] = "idle"
  /\ opsStarted < MaxOps
  /\ opsStarted' = opsStarted + 1
  /\ op' = [op EXCEPT ![t] = o]
  /\ pc' = [pc EXCEPT ![t] = "lock"]
  /\ result' = [result EXCEPT ![t] = "none"]
  /\ UNCHANGED notSem
  /\ UNCHANGED <<count, maxCount, mutex, semHist>>

\* pthread_mutex_lock(&mutex_) at the head of every operation
Lock(t) ==
  /\ pc[t] = "lock"
  /\ mutex = 0
  /\ mutex' = t
  /\ pc' = [pc EXCEPT ![t] =
              CASE op[t] = "release" -> "incr"
                [] op[t] = "tryAcquire" -> "try"
                [] OTHER -> "test"]
  /\ UNCHANGED notSem
  /\ UNCHANGED <<count, maxCount, op, result, opsStarted, semHist>>

\* while(count_ <= 0) pthread_cond_wait / pthread_cond_timedwait: the wait
\* releases the mutex and blocks; otherwise fall through to --count_
Test(t) ==
  /\ pc[t] = "test"
  /\ mutex = t
  /\ IF AcquireMustWait
       THEN /\ pc' = [pc EXCEPT ![t] = "wait"]
            /\ mutex' = 0
       ELSE /\ pc' = [pc EXCEPT ![t] = "dec"]
            /\ mutex' = mutex
  /\ UNCHANGED notSem
  /\ UNCHANGED <<count, maxCount, op, result, opsStarted, semHist>>

\* a wake-up of pthread_cond_wait that no signal caused (POSIX allows it)
SpuriousWake(t) ==
  /\ pc[t] = "wait"
  /\ spurious < MaxSpurious
  /\ spurious' = spurious + 1
  /\ pc' = [pc EXCEPT ![t] = "relock"]
  /\ UNCHANGED notSem
  /\ UNCHANGED <<count, maxCount, mutex, op, result, opsStarted,
                 count0, incs, drops, relDone, decs>>

\* the woken thread re-acquires the mutex before the wait returns 0
Relock(t) ==
  /\ pc[t] = "relock"
  /\ mutex = 0
  /\ mutex' = t
  /\ pc' = [pc EXCEPT ![t] = "test"]
  /\ UNCHANGED notSem
  /\ UNCHANGED <<count, maxCount, op, result, opsStarted, semHist>>

\* the absolute deadline ts of acquire(dt) passes while the thread is inside
\* pthread_cond_timedwait (at once when the deadline is already behind)
Timeout(t) ==
  /\ op[t] = "timedAcquire"
  /\ pc[t] = "wait"
  /\ pc' = [pc EXCEPT ![t] = "relockTimedOut"]
  /\ UNCHANGED notSem
  /\ UNCHANGED <<count, maxCount, mutex, op, result, opsStarted, semHist>>

TimedOutReturnDec(t) ==
  /\ pc[t] = "relockTimedOut"
  /\ mutex = 0
  /\ pc' = [pc EXCEPT ![t] = "idle"]
  /\ result' = [result EXCEPT ![t] = "false"]
  /\ count' = count - 1
  /\ UNCHANGED notSem
  /\ UNCHANGED <<maxCount, mutex, op, opsStarted, semHist>>

\* pthread_cond_timedwait re-acquires the mutex and returns ETIMEDOUT:
\* pthread_mutex_unlock(&mutex_); return false;
TimedOutReturn(t) ==
  /\ pc[t] = "relockTimedOut"
  /\ mutex = 0
  /\ pc' = [pc EXCEPT ![t] = "idle"]
  /\ result' = [result EXCEPT ![t] = "false"]
  /\ UNCHANGED notSem
  /\ UNCHANGED <<count, maxCount, mutex, op, opsStarted, semHist>>

\* --count_;
Dec(t) ==
  /\ pc[t] = "dec"
  /\ mutex = t
  /\ count' = count - 1
  /\ decs' = decs + 1
  /\ pc' = [pc EXCEPT ![t] = "unlockTrue"]
  /\ UNCHANGED notSem
  /\ UNCHANGED <<maxCount, mutex, op, result, opsStarted,
                 spurious, count0, incs, drops, relDone>>

\* tryAcquire: if(count_ > 0){ --count_; unlock; return true; }
\*             unlock; return false;
Try(t) ==
  /\ pc[t] = "try"
  /\ mutex = t
  /\ IF TryAcquireAvailable
       THEN /\ count' = count - 1
            /\ decs' = decs + 1
            /\ pc' = [pc EXCEPT ![t] = "unlockTrue"]
       ELSE /\ count' = count
            /\ decs' = decs
            /\ pc' = [pc EXCEPT ![t] = "unlockFalse"]
  /\ UNCHANGED notSem
  /\ UNCHANGED <<maxCount, mutex, op, result, opsStarted,
                 spurious, count0, incs, drops, relDone>>

\* pthread_mutex_unlock(&mutex_); return true / false;
Unlock(t) ==
  /\ pc[t] \in {"unlockTrue", "unlockFalse"}
  /\ mutex = t
  /\ mutex' = 0
  /\ result' = [result EXCEPT ![t] =
                  IF pc[t] = "unlockTrue" THEN "true" ELSE "false"]
  /\ pc' = [pc EXCEPT ![t] = "idle"]
  /\ UNCHANGED notSem
  /\ UNCHANGED <<count, maxCount, op, opsStarted, semHist>>

\* release: if(maxCount_ == 0 || count_ < maxCount_){ ++count_; }
Incr(t) ==
  /\ pc[t] = "incr"
  /\ mutex = t
  /\ IF ReleaseMayIncrement
       THEN /\ count' = count + 1
            /\ incs' = incs + 1
            /\ drops' = drops
       ELSE /\ count' = count
            /\ incs' = incs
            /\ drops' = drops + 1
  /\ pc' = [pc EXCEPT ![t] = "signal"]
  /\ UNCHANGED notSem
  /\ UNCHANGED <<maxCount, mutex, op, result, opsStarted,
                 spurious, count0, relDone, decs>>

\* release: pthread_cond_signal(&condition_) unblocks one waiting thread,
\* if there is one
SignalOff(t) ==
  /\ pc[t] = "signal"
  /\ mutex = t
  /\ pc' = [pc EXCEPT ![t] = "unlockRelease"]
  /\ UNCHANGED notSem
  /\ UNCHANGED <<count, maxCount, mutex, op, result, opsStarted, semHist>>
Signal(t) ==
  /\ pc[t] = "signal"
  /\ mutex = t
  /\ IF Waiters = {}
       THEN pc' = [pc EXCEPT ![t] = "unlockRelease"]
       ELSE \E w \in Waiters :
              pc' = [pc EXCEPT ![t] = "unlockRelease", ![w] = "relock"]
  /\ UNCHANGED notSem
  /\ UNCHANGED <<count, maxCount, mutex, op, result, opsStarted, semHist>>

\* release: pthread_mutex_unlock(&mutex_);
UnlockRelease(t) ==
  /\ pc[t] = "unlockRelease"
  /\ mutex = t
  /\ mutex' = 0
  /\ relDone' = relDone + 1
  /\ result' = [result EXCEPT ![t] = "void"]
  /\ pc' = [pc EXCEPT ![t] = "idle"]
  /\ UNCHANGED notSem
  /\ UNCHANGED <<count, maxCount, op, opsStarted,
                 spurious, count0, incs, drops, decs>>

SemOps == {"acquire", "timedAcquire", "tryAcquire", "release"}

NextSem ==
  \E t \in Threads :
    \/ \E o \in SemOps : Call(t, o)
    \/ Lock(t)
    \/ Test(t)
    \/ SpuriousWake(t)
    \/ Relock(t)
    \/ Timeout(t)
    \/ TimedOutReturn(t)
    \/ Dec(t)
    \/ Try(t)
    \/ Unlock(t)
    \/ Incr(t)
    \/ Signal(t)
    \/ UnlockRelease(t)

SpecSem == InitSem /\ [][NextSem]_vars

\* the same semaphore when no thread ever calls release()
NextSemQuiet ==
  \E t \in Threads :
    \/ \E o \in SemOps \ {"release"} : Call(t, o)
    \/ Lock(t)
    \/ Test(t)
    \/ SpuriousWake(t)
    \/ Relock(t)
    \/ Timeout(t)
    \/ TimedOutReturn(t)
    \/ Dec(t)
    \/ Try(t)
    \/ Unlock(t)

\* Scheduling: some thread that can take a step is eventually scheduled, and
\* the clock reaches the deadline of every acquire(dt) that is waiting.
FairSemQuiet == WF_vars(NextSemQuiet)

\* CVSemaphore(int count): maxCount_ is 0
InitSemQuiet == InitSem /\ maxCount = 0

FairSpecSemQuiet == InitSemQuiet /\ [][NextSemQuiet]_vars /\ FairSemQuiet

\* ------------------------------------------------------------------------
\* Runtime facade (runtime/runtime.cpp) and thread pool
\* ------------------------------------------------------------------------

Workers == 1..NumWorkers

\* a value that crosses the C ABI: what it is and which one
Val(tag, v) == [tag |-> tag, v |-> v]
SynchPtr == Val("Synch*", 1)
ArgsPtr == Val("struct.func_args*", 1)
BodyFn == Val("function", 1)
I32(i) == Val("i32", i)

\* the ends of the 32-bit range, signed reading
MinInt32 == 0 - 2147483647 - 1
MaxInt32 == 0 - (MinInt32 + 1)

\* 32-bit arithmetic on the signed reading of the bit pattern
Add32(a, b) ==
  IF b >= 0
    THEN IF a > MaxInt32 - b
           THEN MinInt32 + (a - (MaxInt32 - b) - 1)
           ELSE a + b
    ELSE IF a < MinInt32 - b
           THEN MaxInt32 - ((MinInt32 - b) - a - 1)
           ELSE a + b

\* unsigned comparison of two 32-bit patterns
ULT(a, b) == IF (a >= 0) = (b >= 0) THEN a < b ELSE a >= 0

\* an operand read by the callee as uint32_t / as void*
AsUInt32(x) == IF x.tag = "i32" THEN x ELSE Val("low32 of " \o x.tag, x.v)
AsPointer(x) == IF x.tag = "i32" THEN Val("pointer from i32", x.v) ELSE x

\* ThreadPool::push(fn, arg, priority): higher priority is taken first,
\* equal priorities in the order pushed
PoolPushOff(q, item) ==
  LET ahead == {k \in 1..Len(q) : ULT(item.priority.v, q[k].priority.v)}
      n == Cardinality(ahead)
  IN SubSeq(q, 1, n) \o <<item>> \o SubSeq(q, n + 1, Len(q))
PoolPush(q, item) ==
  LET ahead == {k \in 1..Len(q) : ~ULT(q[k].priority.v, item.priority.v)}
      n == Cardinality(ahead)
  IN SubSeq(q, 1, n) \o <<item>> \o SubSeq(q, n + 1, Len(q))

\* Synch(int count) : sem_(-count)
SynchCtorCountPlain(c) == c
SynchCtorCount(c) == 0 - c

\* __ares_create_synch(uint32_t count): new Synch(count - 1)
CreateSynchArgOff(n) == n
CreateSynchArg(n) == Add32(n, 0 - 1)

\* VSem::acquire() of Synch::await blocks while count_ <= 0
SynchMustWait == synchCount <= 0

\* void __ares_queue_func(void* synch, void* fp, uint32_t index,
\*                        uint32_t priority)
\* called with the operand list ops: each parameter takes the operand at
\* its position
QueueFuncParams(ops) ==
  [synch |-> AsPointer(ops[1]), fp |-> AsPointer(ops[2]),
   index |-> AsUInt32(ops[3]), priority |-> AsUInt32(ops[4])]

\* FuncArg(Synch* synch, int n)
FuncArg(synch, n) == [synch |-> synch, n |-> n]

\* _threadPool->push(fp, new FuncArg(synch, index), priority)
QueueFunc(ops) ==
  LET p == QueueFuncParams(ops) IN
    /\ triples' = Append(triples, [obj |-> FuncArg(p.synch, p.index),
                                   live |-> TRUE, freedAt |-> 0])
    /\ poolQueue' = PoolPush(poolQueue,
                             [fn |-> p.fp, arg |-> Len(triples) + 1,
                              priority |-> p.priority])
    /\ queueLog' = Append(queueLog, ops)

\* void* __ares_create_synch(uint32_t count). The negation in the Synch
\* constructor overflows for the most negative int, which is undefined:
\* the value wraps, or the process traps.
CreateSynch(n) ==
  LET c == CreateSynchArg(n) IN
    /\ synchState' = "live"
    /\ createLog' = Append(createLog, n)
    /\ IF c = MinInt32
         THEN \/ synchCount' = MinInt32 /\ crashed' = FALSE
              \/ synchCount' = 0 /\ crashed' = TRUE
         ELSE synchCount' = SynchCtorCount(c) /\ crashed' = crashed

\* __ares_await_synch: s->await() returns once count_ > 0, decrementing it
AwaitSynchAcquire ==
  /\ ~crashed
  /\ cpc = "await"
  /\ ~SynchMustWait
  /\ synchCount' = synchCount - 1
  /\ cpc' = "awaitDelete"
  /\ UNCHANGED <<lo, hi, outerV, argsStruct, idx, synchState, poolQueue,
                 triples, wpc, witem, crashed, written, createLog, queueLog,
                 finishCalls, lateWrites, freedUse>>
  /\ UNCHANGED notPFor

\* __ares_await_synch: delete s; and return to the caller
AwaitSynchDelete ==
  /\ ~crashed
  /\ cpc = "awaitDelete"
  /\ synchState' = "freed"
  /\ cpc' = "merge"
  /\ UNCHANGED <<lo, hi, outerV, argsStruct, idx, synchCount, poolQueue,
                 triples, wpc, witem, crashed, written, createLog, queueLog,
                 finishCalls, lateWrites, freedUse>>
  /\ UNCHANGED notPFor

\* __ares_await_synch has returned to its caller
AwaitReturned == cpc = "merge"

\* worker loop of the pool: take the first item of the queue
WorkerTake(w) ==
  /\ ~crashed
  /\ wpc[w] = "idle"
  /\ poolQueue /= <<>>
  /\ witem' = [witem EXCEPT ![w] = Head(poolQueue)]
  /\ poolQueue' = Tail(poolQueue)
  /\ wpc' = [wpc EXCEPT ![w] = "call"]
  /\ UNCHANGED <<cpc, lo, hi, outerV, argsStruct, idx, synchState,
                 synchCount, triples, crashed, written, createLog, queueLog,
                 finishCalls, lateWrites, freedUse>>
  /\ UNCHANGED notPFor

\* worker loop: fn(arg) where fn is not the address of a function. The call
\* is undefined: the process dies, or the thread never comes back.
WorkerCallsNonFunction(w) ==
  /\ ~crashed
  /\ wpc[w] = "call"
  /\ witem[w].fn.tag /= "function"
  /\ \/ crashed' = TRUE /\ wpc' = wpc
     \/ crashed' = FALSE /\ wpc' = [wpc EXCEPT ![w] = "lost"]
  /\ UNCHANGED <<cpc, lo, hi, outerV, argsStruct, idx, synchState,
                 synchCount, poolQueue, triples, witem, written, createLog,
                 queueLog, finishCalls, lateWrites, freedUse>>
  /\ UNCHANGED notPFor

\* ------------------------------------------------------------------------
\* Caller code emitted by HLIRModule::lowerParallelFor_ (hlir/src/HLIR.cpp)
\* ------------------------------------------------------------------------

\* a parallel-for over [lo, hi) whose body captures one outer value; the
\* end is not negative (read unsigned by the loop test, a negative end is
\* some 2^32 iterations away from any start)
InitPFor ==
  /\ SemParked
  /\ CaptureParked
  /\ HLIRParked
  /\ DispatchParked
  /\ CreateParked
  /\ ReduceParked
  /\ ForceParked
  /\ TaskArgsParked
  /\ TaskLowerParked
  /\ RewriteParked
  /\ LowerParked
  /\ TaskParked
  /\ cpc = "marker"
  /\ lo \in (0 - MaxNeg)..MaxIdx
  /\ hi \in Max(lo, 0)..MaxIdx
  /\ outerV \in 1..MaxOuter
  /\ argsStruct = <<>>
  /\ idx = 0
  /\ synchState = "none"
  /\ synchCount = 0
  /\ poolQueue = <<>>
  /\ triples = <<>>
  /\ wpc = [w \in Workers |-> "idle"]
  /\ witem = [w \in Workers |-> NoItem]
  /\ crashed = FALSE
  /\ written = [i \in (0 - MaxNeg)..MaxIdx |-> 0]
  /\ createLog = <<>>
  /\ queueLog = <<>>
  /\ finishCalls = 0
  /\ lateWrites = 0
  /\ freedUse = 0

\* argsPtr = alloca argsType; store each captured value into its field
StoreCaptured ==
  /\ ~crashed
  /\ cpc = "marker"
  /\ argsStruct' = <<outerV>>
  /\ cpc' = "create"
  /\ UNCHANGED <<lo, hi, outerV, idx, synchState, synchCount, poolQueue,
                 triples, wpc, witem, crashed, written, createLog, queueLog,
                 finishCalls, lateWrites, freedUse>>
  /\ UNCHANGED notPFor

\* n = end - start; synch.ptr = __ares_create_synch(n);
\* index.ptr = alloca i32; store start, index.ptr; br pfor.queue.loop
CreateSynchCall ==
  /\ ~crashed
  /\ cpc = "create"
  /\ CreateSynch(Add32(hi, 0 - lo))
  /\ idx' = lo
  /\ cpc' = "queue"
  /\ UNCHANGED <<lo, hi, outerV, argsStruct, poolQueue, triples, wpc, witem,
                 written, queueLog, finishCalls, lateWrites, freedUse>>
  /\ UNCHANGED notPFor

\* pfor.queue.loop: index = load index.ptr;
\* call __ares_queue_func(synch.ptr, argsPtr, bodyFunc, index, 1)
QueueCall ==
  /\ ~crashed
  /\ cpc = "queue"
  /\ QueueFunc(<<SynchPtr, ArgsPtr, BodyFn, I32(idx), I32(1)>>)
  /\ cpc' = "loopCond"
  /\ UNCHANGED <<lo, hi, outerV, argsStruct, idx, synchState, synchCount,
                 wpc, witem, crashed, written, createLog, finishCalls,
                 lateWrites, freedUse>>
  /\ UNCHANGED notPFor

\* pfor.queue.exit, the block the loop leaves to, starts with the call of
\* __ares_await_synch and ends with the branch to pfor.merge
ExitBlockOff == "merge"
ExitBlock == "await"

\* nextIndex = index + 1; store nextIndex, index.ptr;
\* cond = icmp ult nextIndex, end; br cond, pfor.queue.loop, pfor.queue.exit
LoopBranch ==
  /\ ~crashed
  /\ cpc = "loopCond"
  /\ idx' = Add32(idx, 1)
  /\ cpc' = IF ULT(Add32(idx, 1), hi) THEN "queue" ELSE ExitBlock
  /\ UNCHANGED <<lo, hi, outerV, argsStruct, synchState, synchCount,
                 poolQueue, triples, wpc, witem, crashed, written, createLog,
                 queueLog, finishCalls, lateWrites, freedUse>>
  /\ UNCHANGED notPFor

\* The work items the lowered caller pushes never hold the body function
\* (see QueueFuncParams), so no step of the body function is part of this
\* machine.
NextPFor ==
  \/ StoreCaptured
  \/ CreateSynchCall
  \/ QueueCall
  \/ LoopBranch
  \/ AwaitSynchAcquire
  \/ AwaitSynchDelete
  \/ \E w \in Workers : WorkerTake(w)
  \/ \E w \in Workers : WorkerCallsNonFunction(w)

SpecPFor == InitPFor /\ [][NextPFor]_vars

\* Scheduling: threads that can run are run (OS threads)
FairSpecPFor == SpecPFor /\ WF_vars(NextPFor)

\* ------------------------------------------------------------------------
\* Properties of the CVSemaphore
\* ------------------------------------------------------------------------

\* C2 (VSem latch): a semaphore built with count -(n-1) and maxCount 0 lets
\* no acquire through before n releases have returned; once exactly n
\* releases have incremented, at most one acquire has succeeded and that one
\* left count = 0 (so a further acquire waits).
C2_Latch ==
  (maxCount = 0 /\ count0 <= 0) =>
    LET n == 1 - count0 IN
      /\ decs > 0 => relDone >= n
      /\ incs = n => decs <= 1
      /\ (incs = n /\ decs = 1) => (count = 0 /\ AcquireMustWait)
      /\ \A t \in Threads :
            (op[t] = "acquire" /\ result[t] = "true") => relDone >= n

\* a 2-party latch after its 2 releases: one acquire returned true, a
\* second one is blocked in pthread_cond_wait, count is 0
C2_Witness ==
  /\ maxCount = 0 /\ count0 = -1
  /\ relDone = 2 /\ decs = 1 /\ count = 0
  /\ \E t, u \in Threads :
        /\ op[t] = "acquire" /\ result[t] = "true"
        /\ op[u] = "acquire" /\ pc[u] = "wait"

\* C8 as stated (VSem cap): with maxCount = k > 0, 0 <= count <= k whenever
\* no thread holds the mutex, for every initial count.
C8_Original ==
  (maxCount > 0 /\ mutex = 0) => (0 <= count /\ count <= maxCount)

\* C8 amended: with maxCount = k > 0 and initial count c0, whenever no thread
\* holds the mutex, min(0, c0) <= count <= max(k, c0); so 0 <= count <= k
\* for every initial count in 0..k.
C8_Cap ==
  (maxCount > 0 /\ mutex = 0) =>
    /\ Min(0, count0) <= count
    /\ count <= Max(maxCount, count0)
    /\ (0 <= count0 /\ count0 <= maxCount) => (0 <= count /\ count <= maxCount)

\* the cap was hit: a release was dropped at count = maxCount after
\* acquires and releases went through
C8_Witness ==
  /\ maxCount > 0 /\ mutex = 0
  /\ 0 <= count0 /\ count0 <= maxCount
  /\ count = maxCount
  /\ drops > 0 /\ incs > 0 /\ decs > 0

\* the ++count_ step and the pthread_cond_signal step of release() by t
ReleaseIncrStep(t) == pc[t] = "incr" /\ pc'[t] = "signal"
ReleaseSignalStep(t) == pc[t] = "signal" /\ pc'[t] = "unlockRelease"

\* exactly one waiting thread (if there is one) leaves the wait
SignalsOneWaiter(t) ==
  IF Waiters = {}
    THEN \A u \in Threads \ {t} : pc'[u] = pc[u]
    ELSE \E w \in Waiters :
           /\ pc'[w] = "relock"
           /\ \A u \in Threads \ {t, w} : pc'[u] = pc[u]

\* C9 as stated: release() leaves count unchanged when maxCount /= 0 and
\* count = maxCount and increments it by 1 in every other case; it always
\* signals one waiter.
C9_Original ==
  [][\A t \in Threads :
       /\ ReleaseIncrStep(t) =>
            IF maxCount /= 0 /\ count = maxCount
              THEN count' = count
              ELSE count' = count + 1
       /\ ReleaseSignalStep(t) => SignalsOneWaiter(t)]_vars

\* C9 amended: release() leaves count unchanged when maxCount /= 0 and
\* count >= maxCount (at or above the cap) and increments it by exactly 1
\* in every other case; in both cases it signals one waiter.
C9_Release ==
  [][\A t \in Threads :
       /\ ReleaseIncrStep(t) =>
            IF maxCount /= 0 /\ count >= maxCount
              THEN count' = count
              ELSE count' = count + 1
       /\ ReleaseSignalStep(t) => SignalsOneWaiter(t)]_vars

\* a release dropped at the cap has just signalled: two waiters have been
\* woken, one by the release that reached the cap, one by the dropped one
C9_Witness ==
  /\ maxCount > 0 /\ count = maxCount /\ drops = 1
  /\ \E t \in Threads : pc[t] = "unlockRelease"
  /\ Cardinality({w \in Threads : pc[w] = "relock"}) = 2

\* C10 (timed acquire): acquire(dt) returns false only out of a timed-out
\* wait and without having changed count; it returns true only after
\* decrementing a positive count by exactly 1; while count stays <= 0 with
\* no release it cannot return true; and with no release every acquire(dt)
\* returns.
C10_TimedAcquire ==
  /\ [][\A t \in Threads : op[t] = "timedAcquire" =>
          /\ (result[t] = "none" /\ result'[t] = "false") =>
                (pc[t] = "relockTimedOut" /\ count' = count)
          /\ (result[t] = "none" /\ result'[t] = "true") =>
                pc[t] = "unlockTrue"
          /\ (pc[t] /= "unlockTrue" /\ pc'[t] = "unlockTrue") =>
                (count > 0 /\ count' = count - 1)
          /\ (pc[t] = pc'[t] \/ pc'[t] /= "unlockTrue") => 
                (pc[t] = pc'[t] \/ count' = count)
          /\ count0 <= 0 => (count' = count0 /\ result'[t] /= "true")]_vars
  /\ \A t \in Threads :
        (op[t] = "timedAcquire" /\ pc[t] /= "idle")
          ~> (pc[t] = "idle" /\ result[t] \in {"true", "false"})

\* an acquire(dt) on a semaphore at count <= 0 has timed out and returned
\* false, count as constructed
C10_Witness ==
  /\ count0 <= 0 /\ count = count0
  /\ \E t \in Threads :
        op[t] = "timedAcquire" /\ pc[t] = "idle" /\ result[t] = "false"

\* ------------------------------------------------------------------------
\* The facade driven through the signatures of runtime.cpp, with work items
\* running the body function built by HLIRParallelFor::HLIRParallelFor
\* ------------------------------------------------------------------------

\* one synch for n = hi work items, indices 0 .. hi-1
InitRT ==
  /\ SemParked
  /\ CaptureParked
  /\ HLIRParked
  /\ DispatchParked
  /\ CreateParked
  /\ ReduceParked
  /\ ForceParked
  /\ TaskArgsParked
  /\ TaskLowerParked
  /\ RewriteParked
  /\ LowerParked
  /\ TaskParked
  /\ cpc = "rtCreate"
  /\ lo = 0
  /\ hi \in 0..MaxIdx
  /\ outerV = 1
  /\ argsStruct = <<>>
  /\ idx = 0
  /\ synchState = "none"
  /\ synchCount = 0
  /\ poolQueue = <<>>
  /\ triples = <<>>
  /\ wpc = [w \in Workers |-> "idle"]
  /\ witem = [w \in Workers |-> NoItem]
  /\ crashed = FALSE
  /\ written = [i \in (0 - MaxNeg)..MaxIdx |-> 0]
  /\ createLog = <<>>
  /\ queueLog = <<>>
  /\ finishCalls = 0
  /\ lateWrites = 0
  /\ freedUse = 0

\* synch = __ares_create_synch(n)
RTCreateSynch ==
  /\ ~crashed
  /\ cpc = "rtCreate"
  /\ CreateSynch(hi)
  /\ idx' = 0
  /\ cpc' = IF hi = 0 THEN "await" ELSE "rtQueue"
  /\ UNCHANGED <<lo, hi, outerV, argsStruct, poolQueue, triples, wpc, witem,
                 written, queueLog, finishCalls, lateWrites, freedUse>>
  /\ UNCHANGED notPFor

\* __ares_queue_func(synch, body, index, priority), once per index
RTQueueFunc ==
  /\ ~crashed
  /\ cpc = "rtQueue"
  /\ \E prio \in 0..1 : QueueFunc(<<SynchPtr, BodyFn, I32(idx), I32(prio)>>)
  /\ idx' = idx + 1
  /\ cpc' = IF idx + 1 < hi THEN "rtQueue" ELSE "await"
  /\ UNCHANGED <<lo, hi, outerV, argsStruct, synchState, synchCount, wpc,
                 witem, crashed, written, createLog, finishCalls, lateWrites,
                 freedUse>>
  /\ UNCHANGED notPFor

\* body entry block: load synch.ptr, take index.ptr, load funcArgs.ptr
BodyEntry(w) ==
  /\ ~crashed
  /\ wpc[w] = "call"
  /\ witem[w].fn = BodyFn
  /\ wpc' = [wpc EXCEPT ![w] =
              IF argsStruct = <<>> THEN "finish" ELSE "loadArgs"]
  /\ UNCHANGED <<cpc, lo, hi, outerV, argsStruct, idx, synchState,
                 synchCount, poolQueue, triples, witem, crashed, written,
                 createLog, queueLog, finishCalls, lateWrites, freedUse>>
  /\ UNCHANGED notPFor

\* call __ares_finish_func(args): a->synch->release(); delete a;
\* Synch::release is VSem::release with no cap. Releasing a synch that has
\* been deleted is undefined: it goes unnoticed or kills the process.
BodyFinishFunc(w) ==
  /\ ~crashed
  /\ wpc[w] = "finish"
  /\ IF synchState = "live"
       THEN /\ synchCount' = synchCount + 1
            /\ UNCHANGED <<freedUse, crashed>>
       ELSE /\ freedUse' = Min(freedUse + 1, 1)
            /\ crashed' \in BOOLEAN
            /\ UNCHANGED synchCount
  /\ triples' = [triples EXCEPT ![witem[w].arg] =
                   [@ EXCEPT !.live = FALSE, !.freedAt = Len(triples)]]
  /\ finishCalls' = finishCalls + 1
  /\ wpc' = [wpc EXCEPT ![w] = "user"]
  /\ UNCHANGED <<cpc, lo, hi, outerV, argsStruct, idx, synchState, poolQueue,
                 witem, written, createLog, queueLog, lateWrites>>
  /\ UNCHANGED notPFor

\* what a load through index.ptr can give once the record is deleted: the
\* index it held, or the index of a record allocated since in its place
IndexLoads(k) ==
  IF triples[k].live THEN {triples[k].obj.n.v}
  ELSE {triples[k].obj.n.v}
         \cup {triples[j].obj.n.v :
                 j \in (triples[k].freedAt + 1)..Len(triples)}

\* the code placed at the body's insertion point, which is the ret that
\* follows the call of __ares_finish_func: A[index] = index
BodyUser(w) ==
  /\ ~crashed
  /\ wpc[w] = "user"
  /\ \E i \in IndexLoads(witem[w].arg) :
       written' = [written EXCEPT ![i] = Min(@ + 1, 2)]
  /\ lateWrites' = IF AwaitReturned THEN 1 ELSE lateWrites
  /\ wpc' = [wpc EXCEPT ![w] = "ret"]
  /\ UNCHANGED <<cpc, lo, hi, outerV, argsStruct, idx, synchState,
                 synchCount, poolQueue, triples, witem, crashed, createLog,
                 queueLog, finishCalls, freedUse>>
  /\ UNCHANGED notPFor

\* ret void: the worker goes back to its loop
BodyRet(w) ==
  /\ ~crashed
  /\ wpc[w] = "ret"
  /\ wpc' = [wpc EXCEPT ![w] = "idle"]
  /\ UNCHANGED <<cpc, lo, hi, outerV, argsStruct, idx, synchState,
                 synchCount, poolQueue, triples, witem, crashed, written,
                 createLog, queueLog, finishCalls, lateWrites, freedUse>>
  /\ UNCHANGED notPFor

NextRT ==
  \/ RTCreateSynch
  \/ RTQueueFunc
  \/ AwaitSynchAcquire
  \/ AwaitSynchDelete
  \/ \E w \in Workers : WorkerTake(w)
  \/ \E w \in Workers : BodyEntry(w)
  \/ \E w \in Workers : BodyFinishFunc(w)
  \/ \E w \in Workers : BodyUser(w)
  \/ \E w \in Workers : BodyRet(w)

SpecRT == InitRT /\ [][NextRT]_vars

\* Scheduling: threads that can run are run (OS threads)
FairSpecRT == SpecRT /\ WF_vars(NextRT)

\* ------------------------------------------------------------------------
\* Tasks: call sites lowered by HLIRModule::lowerTask_, the wrapper built by
\* HLIRTask::setFunction, and the task facade of runtime.cpp, running
\*   task int fib(int i){ if(i <= 1) return i; return fib(i-1) + fib(i-2); }
\* ------------------------------------------------------------------------

WrapperFn == Val("function", 2)

\* what malloc'ed memory can hold before it is written
Garbage == {0 - 1, 1}

RECURSIVE Fib(_)
Fib(n) == IF n <= 1 THEN n ELSE Fib(n - 1) + Fib(n - 2)

\* VSem::acquire() of the future's Synch blocks while count_ <= 0
FutureMustWaitOff(c) == taskArgs[c].future < 0
FutureMustWait(c) == taskArgs[c].future <= 0

\* a fib(N) call in main on a pool of 1 .. NumWorkers workers
InitTask ==
  /\ SemParked
  /\ CaptureParked
  /\ HLIRParked
  /\ DispatchParked
  /\ CreateParked
  /\ ReduceParked
  /\ ForceParked
  /\ TaskArgsParked
  /\ TaskLowerParked
  /\ RewriteParked
  /\ LowerParked
  /\ cpc = "parked" /\ lo = 0 /\ hi = 0 /\ outerV = 0 /\ idx = 0
  /\ argsStruct = <<>> /\ synchState = "none" /\ synchCount = 0
  /\ triples = <<>> /\ crashed = FALSE
  /\ written = [i \in (0 - MaxNeg)..MaxIdx |-> 0]
  /\ createLog = <<>> /\ queueLog = <<>>
  /\ finishCalls = 0 /\ lateWrites = 0 /\ freedUse = 0
  /\ poolQueue = <<>>
  /\ \E n \in 1..NumWorkers :
       wpc = [w \in Workers |-> IF w <= n THEN "idle" ELSE "absent"]
  /\ witem = [w \in Workers |-> NoItem]
  /\ fibN \in 0..MaxFib
  /\ awaitFirst \in {1, 2}
  /\ taskArgs = <<>>
  /\ frame = [w \in Workers |-> NoFrame]
  /\ mpc = "call"
  /\ mres = 0

\* Call site of a task: args = __ares_alloc(size); store the argument into
\* field 3. Field 0 holds no future yet; field 1 (depth) is never written
\* and its load is not used.
TaskAlloc(a) ==
  \E g \in Garbage :
    taskArgs' = Append(taskArgs,
                       [future |-> 0, hasFuture |-> FALSE, futureId |-> 0,
                        ret |-> g, retSet |-> FALSE, released |-> FALSE,
                        arg |-> a])

\* new Synch(0): an object no earlier new has returned (no Synch of a
\* future is ever deleted)
FreshFutureIdOff ==
  Max(1, Cardinality({k \in 1..Len(taskArgs) : taskArgs[k].hasFuture}))
FreshFutureId ==
  Cardinality({k \in 1..Len(taskArgs) : taskArgs[k].hasFuture}) + 1

\* __ares_task_queue: args->futureSync = new Synch(0);
TaskQueueStore(c) ==
  taskArgs' = [taskArgs EXCEPT ![c].future = SynchCtorCount(0),
                               ![c].futureId = FreshFutureId,
                               ![c].hasFuture = TRUE]

\* __ares_task_queue: _threadPool->push(func, args, 0);
TaskQueuePush(c) ==
  poolQueue' = PoolPush(poolQueue,
                        [fn |-> WrapperFn, arg |-> c, priority |-> I32(0)])

\* __ares_task_await_future(args): args->futureSync->await()
TaskAwaitFutureOff(c) ==
  /\ ~FutureMustWait(c)
  /\ taskArgs' = [taskArgs EXCEPT ![c].future = @ - 1,
                                  ![c].hasFuture = FALSE]
TaskAwaitFuture(c) ==
  /\ ~FutureMustWait(c)
  /\ taskArgs' = [taskArgs EXCEPT ![c].future = @ - 1]

\* main: the lowered call fib(N), up to the call of __ares_task_queue
MainCall ==
  /\ ~crashed
  /\ mpc = "call"
  /\ TaskAlloc(fibN)
  /\ mpc' = "queueStore"
  /\ UNCHANGED <<fibN, awaitFirst, frame, mres, poolQueue, wpc, witem>>
  /\ UNCHANGED notTask

\* main: __ares_task_queue(wrapper, args), first statement
MainQueueStore ==
  /\ ~crashed
  /\ mpc = "queueStore"
  /\ TaskQueueStore(1)
  /\ mpc' = "queuePush"
  /\ UNCHANGED <<fibN, awaitFirst, frame, mres, poolQueue, wpc, witem>>
  /\ UNCHANGED notTask

\* main: __ares_task_queue(wrapper, args), second statement
MainQueuePush ==
  /\ ~crashed
  /\ mpc = "queuePush"
  /\ TaskQueuePush(1)
  /\ mpc' = "await"
  /\ UNCHANGED <<fibN, awaitFirst, taskArgs, frame, mres, wpc, witem>>
  /\ UNCHANGED notTask

\* main: the await placed before the first use of the call's value
MainAwait ==
  /\ ~crashed
  /\ mpc = "await"
  /\ TaskAwaitFuture(1)
  /\ mpc' = "load"
  /\ UNCHANGED <<fibN, awaitFirst, frame, mres, poolQueue, wpc, witem>>
  /\ UNCHANGED notTask

\* main: retVal = load retPtr (field 2)
MainLoad ==
  /\ ~crashed
  /\ mpc = "load"
  /\ mres' = taskArgs[1].ret
  /\ mpc' = "done"
  /\ UNCHANGED <<fibN, awaitFirst, taskArgs, frame, poolQueue, wpc, witem>>
  /\ UNCHANGED notTask

\* worker loop of the pool: take the first item of the queue
TaskTake(w) ==
  /\ ~crashed
  /\ wpc[w] = "idle"
  /\ poolQueue /= <<>>
  /\ witem' = [witem EXCEPT ![w] = Head(poolQueue)]
  /\ poolQueue' = Tail(poolQueue)
  /\ wpc' = [wpc EXCEPT ![w] = "call"]
  /\ UNCHANGED taskVars
  /\ UNCHANGED notTask

\* hlir.task_wrapper entry: load the argument from field 3 and call fib
WrapperEntry(w) ==
  /\ ~crashed
  /\ wpc[w] = "call"
  /\ witem[w].fn = WrapperFn
  /\ frame' = [frame EXCEPT ![w].i = taskArgs[witem[w].arg].arg]
  /\ wpc' = [wpc EXCEPT ![w] = "fib"]
  /\ UNCHANGED <<fibN, awaitFirst, taskArgs, mpc, mres, poolQueue, witem>>
  /\ UNCHANGED notTask

\* fib: if(i <= 1) return i;
FibTest(w) ==
  /\ ~crashed
  /\ wpc[w] = "fib"
  /\ IF frame[w].i <= 1
       THEN /\ frame' = [frame EXCEPT ![w].retv = frame[w].i]
            /\ wpc' = [wpc EXCEPT ![w] = "storeRet"]
       ELSE /\ frame' = frame
            /\ wpc' = [wpc EXCEPT ![w] = "call1"]
  /\ UNCHANGED <<fibN, awaitFirst, taskArgs, mpc, mres, poolQueue, witem>>
  /\ UNCHANGED notTask

\* fib: the lowered calls fib(i-1) and then fib(i-2), each up to its call
\* of __ares_task_queue; c1 is the record of the call whose await comes
\* first
FibCall(w) ==
  /\ ~crashed
  /\ wpc[w] \in {"call1", "call2"}
  /\ TaskAlloc(frame[w].i - (IF wpc[w] = "call1" THEN 1 ELSE 2))
  /\ frame' = IF (wpc[w] = "call1") = (awaitFirst = 1)
                THEN [frame EXCEPT ![w].c1 = Len(taskArgs) + 1]
                ELSE [frame EXCEPT ![w].c2 = Len(taskArgs) + 1]
  /\ wpc' = [wpc EXCEPT ![w] = IF wpc[w] = "call1" THEN "store1"
                               ELSE "store2"]
  /\ UNCHANGED <<fibN, awaitFirst, mpc, mres, poolQueue, witem>>
  /\ UNCHANGED notTask

\* the record of the call a worker in fib is queueing
Queueing(w) ==
  IF (wpc[w] \in {"store1", "push1"}) = (awaitFirst = 1) THEN frame[w].c1
  ELSE frame[w].c2

\* fib: __ares_task_queue(wrapper, args), first statement
FibQueueStore(w) ==
  /\ ~crashed
  /\ wpc[w] \in {"store1", "store2"}
  /\ TaskQueueStore(Queueing(w))
  /\ wpc' = [wpc EXCEPT ![w] = IF wpc[w] = "store1" THEN "push1"
                               ELSE "push2"]
  /\ UNCHANGED <<fibN, awaitFirst, frame, mpc, mres, poolQueue, witem>>
  /\ UNCHANGED notTask

\* fib: __ares_task_queue(wrapper, args), second statement
FibQueuePush(w) ==
  /\ ~crashed
  /\ wpc[w] \in {"push1", "push2"}
  /\ TaskQueuePush(Queueing(w))
  /\ wpc' = [wpc EXCEPT ![w] = IF wpc[w] = "push1" THEN "call2"
                               ELSE "await1"]
  /\ UNCHANGED <<fibN, awaitFirst, taskArgs, frame, mpc, mres, witem>>
  /\ UNCHANGED notTask

\* the record a worker in fib is awaiting or loading from
Awaited(w) == IF wpc[w] \in {"await1", "load1"} THEN frame[w].c1
              ELSE frame[w].c2

\* fib: __ares_task_await_future(args) placed before the add
FibAwait(w) ==
  /\ ~crashed
  /\ wpc[w] \in {"await1", "await2"}
  /\ TaskAwaitFuture(Awaited(w))
  /\ wpc' = [wpc EXCEPT ![w] = IF wpc[w] = "await1" THEN "load1"
                               ELSE "load2"]
  /\ UNCHANGED <<fibN, awaitFirst, frame, mpc, mres, poolQueue, witem>>
  /\ UNCHANGED notTask

\* fib: retVal = load retPtr (field 2), replacing the call's value
FibLoad(w) ==
  /\ ~crashed
  /\ wpc[w] \in {"load1", "load2"}
  /\ frame' = IF wpc[w] = "load1"
                THEN [frame EXCEPT ![w].v1 = taskArgs[Awaited(w)].ret]
                ELSE [frame EXCEPT ![w].v2 = taskArgs[Awaited(w)].ret]
  /\ wpc' = [wpc EXCEPT ![w] = IF wpc[w] = "load1" THEN "await2" ELSE "add"]
  /\ UNCHANGED <<fibN, awaitFirst, taskArgs, mpc, mres, poolQueue, witem>>
  /\ UNCHANGED notTask

\* fib: return fib(i-1) + fib(i-2);
FibAdd(w) ==
  /\ ~crashed
  /\ wpc[w] = "add"
  /\ frame' = [frame EXCEPT ![w].retv = frame[w].v1 + frame[w].v2]
  /\ wpc' = [wpc EXCEPT ![w] = "storeRet"]
  /\ UNCHANGED <<fibN, awaitFirst, taskArgs, mpc, mres, poolQueue, witem>>
  /\ UNCHANGED notTask

\* hlir.task_wrapper: store ret, retPtr (field 2)
WrapperStoreRet(w) ==
  /\ ~crashed
  /\ wpc[w] = "storeRet"
  /\ taskArgs' = [taskArgs EXCEPT ![witem[w].arg].ret = frame[w].retv,
                                  ![witem[w].arg].retSet = TRUE]
  /\ wpc' = [wpc EXCEPT ![w] = "release"]
  /\ UNCHANGED <<fibN, awaitFirst, frame, mpc, mres, poolQueue, witem>>
  /\ UNCHANGED notTask

\* hlir.task_wrapper: __ares_task_release_future(args), which is
\* args->futureSync->release(); then ret void
WrapperRelease(w) ==
  /\ ~crashed
  /\ wpc[w] = "release"
  /\ taskArgs' = [taskArgs EXCEPT ![witem[w].arg].future = @ + 1,
                                  ![witem[w].arg].released = TRUE]
  /\ frame' = [frame EXCEPT ![w] = NoFrame]
  /\ wpc' = [wpc EXCEPT ![w] = "idle"]
  /\ UNCHANGED <<fibN, awaitFirst, mpc, mres, poolQueue, witem>>
  /\ UNCHANGED notTask

NextTask ==
  \/ MainCall
  \/ MainQueueStore
  \/ MainQueuePush
  \/ MainAwait
  \/ MainLoad
  \/ \E w \in Workers : TaskTake(w)
  \/ \E w \in Workers : WrapperEntry(w)
  \/ \E w \in Workers : FibTest(w)
  \/ \E w \in Workers : FibCall(w)
  \/ \E w \in Workers : FibQueueStore(w)
  \/ \E w \in Workers : FibQueuePush(w)
  \/ \E w \in Workers : FibAwait(w)
  \/ \E w \in Workers : FibLoad(w)
  \/ \E w \in Workers : FibAdd(w)
  \/ \E w \in Workers : WrapperStoreRet(w)
  \/ \E w \in Workers : WrapperRelease(w)

SpecTask == InitTask /\ [][NextTask]_vars

\* ------------------------------------------------------------------------
\* Properties of the lowered parallel-for (SpecPFor)
\* ------------------------------------------------------------------------

Range == {i \in DOMAIN written : lo <= i /\ i < hi}
AllWrittenOnce == \A i \in Range : written[i] = 1

\* C1: parallel-for completion. For a parallel-for over [s, e) whose body
\* writes A[i] = i, the await returns to the caller, and when it has
\* returned every index of [s, e) has been written exactly once and no
\* body write happens afterwards.
C1_Completion ==
  /\ [](AwaitReturned => AllWrittenOnce)
  /\ [](lateWrites = 0)
  /\ (cpc = "create") ~> AwaitReturned

\* C4: empty range. A lowered parallel-for with start = end calls
\* create_synch(0), which gives the count +1, never calls queue_func, and
\* its await does not block.
C4_EmptyRange ==
  (lo = hi) =>
    /\ createLog \in {<<>>, <<0>>}
    /\ cpc \in {"queue", "loopCond", "await"} => synchCount = 1
    /\ queueLog = <<>>
    /\ cpc = "await" => ~SynchMustWait

\* the work item pushed by the k-th queue_func call, wherever it is now
ItemsNow ==
  {poolQueue[k] : k \in 1..Len(poolQueue)}
    \cup {witem[w] : w \in {v \in Workers : wpc[v] /= "idle"}}

\* C7: queue_func(synch, args, fn, index, priority) pushes a work item whose
\* function is fn, whose priority is priority and whose argument is a fresh
\* record with exactly the fields {synch, index, args} holding the synch,
\* the index and the captured-args pointer passed.
C7_QueueFunc ==
  \A it \in ItemsNow :
    LET ops == queueLog[it.arg]
        rec == triples[it.arg].obj
    IN /\ it.fn = ops[3]
       /\ it.priority = ops[5]
       /\ DOMAIN rec = {"synch", "index", "args"}
       /\ rec.synch = ops[1]
       /\ rec.index = ops[4]
       /\ rec.args = ops[2]

\* ------------------------------------------------------------------------
\* Properties of the latch protocol at the facade (SpecRT)
\* ------------------------------------------------------------------------

\* the acquire inside __ares_await_synch has returned
AwaitAcquired == cpc \in {"awaitDelete", "merge"}

\* C3: latch protocol. For a synch created by create_synch(n), n >= 1, with
\* n work items queued on it, await_synch does not get past its acquire
\* before all n bodies have called finish_func, and once all n have called
\* it a pending await_synch eventually returns.
C3_Latch ==
  /\ [](hi >= 1 /\ AwaitAcquired => finishCalls = hi)
  /\ (hi >= 1 /\ cpc = "await" /\ finishCalls = hi) ~> AwaitReturned

\* the await of a synch for two or more work items has returned, every
\* body having called finish_func and the count being back at 0
C3_Witness ==
  /\ hi >= 2
  /\ AwaitReturned
  /\ finishCalls = hi
  /\ synchCount = 0
  /\ createLog = <<hi>>

\* ------------------------------------------------------------------------
\* Properties of tasks (SpecTask)
\* ------------------------------------------------------------------------

PoolWorkers == {w \in Workers : wpc[w] /= "absent"}
Queued(c) == \E k \in 1..Len(poolQueue) : poolQueue[k].arg = c

\* every worker of the pool is blocked in task_await_future on a task that
\* is still in the queue
AllWorkersBlocked ==
  \A w \in PoolWorkers :
    /\ wpc[w] \in {"await1", "await2"}
    /\ FutureMustWait(Awaited(w))
    /\ Queued(Awaited(w))

\* C5: recursive tasks terminate with the right value. fib(n), queueing
\* fib(n-1) and fib(n-2) as tasks and awaiting both, gives main the n-th
\* Fibonacci number on a pool with a fixed number of workers, and the pool
\* never has every worker blocked in task_await_future on tasks that are
\* still queued.
C5_FibTerminates ==
  /\ mpc = "done" => mres = Fib(fibN)
  /\ ~AllWorkersBlocked

\* the task record c holds the value its function returned and its future
\* has been released
Yielded(c) ==
  /\ taskArgs[c].retSet
  /\ taskArgs[c].released
  /\ taskArgs[c].ret = Fib(taskArgs[c].arg)

\* C6: task future. A caller that has returned from task_await_future on a
\* task's args reads from the return slot the value the task's function
\* returned: the wrapper's store precedes its release, and the await does
\* not return before the release.
C6_Future ==
  /\ \A c \in 1..Len(taskArgs) : taskArgs[c].released => taskArgs[c].retSet
  /\ mpc \in {"load", "done"} => Yielded(1)
  /\ mpc = "done" => mres = Fib(fibN)
  /\ \A w \in PoolWorkers :
       /\ wpc[w] \in {"load1", "load2"} => Yielded(Awaited(w))
       /\ wpc[w] \in {"await2", "load2", "add"} =>
            frame[w].v1 = Fib(taskArgs[frame[w].c1].arg)
       /\ wpc[w] = "add" => frame[w].v2 = Fib(taskArgs[frame[w].c2].arg)

\* main has loaded the value of a fib call that itself queued and awaited
\* two tasks, one of them a released fib(1)
C6_Witness ==
  /\ mpc = "done"
  /\ fibN >= 2
  /\ mres = Fib(fibN)
  /\ \E c \in 2..Len(taskArgs) : taskArgs[c].arg = 1 /\ taskArgs[c].released

\* ------------------------------------------------------------------------
\* Further properties of the CVSemaphore (SpecSem)
\* ------------------------------------------------------------------------

\* C11: tryAcquire() never blocks: it never waits on the condition. Under
\* the mutex, if count > 0 it decrements count by 1 and returns true;
\* otherwise it leaves count unchanged and returns false, whatever the
\* other threads do with the semaphore.
C11_TryAcquire ==
  /\ [](\A t \in Threads : op[t] = "tryAcquire" =>
          pc[t] \in {"idle", "lock", "try", "unlockTrue", "unlockFalse"})
  /\ [][\A t \in Threads : op[t] = "tryAcquire" =>
          /\ (pc[t] = "try" /\ pc'[t] /= "try") =>
               IF count > 0
                 THEN count' = count - 1 /\ pc'[t] = "unlockTrue"
                 ELSE count' = count /\ pc'[t] = "unlockFalse"
          /\ (pc[t] = "lock" /\ pc'[t] /= "lock") => pc'[t] = "try"
          /\ (pc[t] \in {"unlockTrue", "unlockFalse"} /\ pc'[t] /= pc[t]) =>
               /\ count' = count
               /\ pc'[t] = "idle"
               /\ result'[t] = IF pc[t] = "unlockTrue" THEN "true"
                               ELSE "false"
          /\ (result[t] = "none" /\ result'[t] /= "none") =>
               pc[t] \in {"unlockTrue", "unlockFalse"}]_vars

\* one tryAcquire has returned true and another false on a semaphore that
\* other threads have released and acquired
C11_Witness ==
  /\ \E t \in Threads :
       op[t] = "tryAcquire" /\ pc[t] = "idle" /\ result[t] = "true"
  /\ \E t \in Threads :
       op[t] = "tryAcquire" /\ pc[t] = "idle" /\ result[t] = "false"
  /\ relDone > 0

\* ------------------------------------------------------------------------
\* One Synch of the facade: created for a count n taken from the small
\* values and from both ends of the 32-bit range, released by other threads
\* and awaited once
\* ------------------------------------------------------------------------

SynchInputs ==
  ((0 - MaxNeg)..(MaxIdx + 1))
    \cup {MinInt32 + k : k \in 0..EdgeSpan}
    \cup {MaxInt32 - k : k \in 0..EdgeSpan}

InitSynch ==
  /\ SemParked
  /\ CaptureParked
  /\ HLIRParked
  /\ DispatchParked
  /\ CreateParked
  /\ ReduceParked
  /\ ForceParked
  /\ TaskArgsParked
  /\ TaskLowerParked
  /\ RewriteParked
  /\ LowerParked
  /\ TaskParked
  /\ cpc = "synchCreate"
  /\ lo = 0
  /\ hi \in SynchInputs
  /\ outerV = 0
  /\ argsStruct = <<>>
  /\ idx = 0
  /\ synchState = "none"
  /\ synchCount = 0
  /\ poolQueue = <<>>
  /\ triples = <<>>
  /\ wpc = [w \in Workers |-> "idle"]
  /\ witem = [w \in Workers |-> NoItem]
  /\ crashed = FALSE
  /\ written = [i \in (0 - MaxNeg)..MaxIdx |-> 0]
  /\ createLog = <<>>
  /\ queueLog = <<>>
  /\ finishCalls = 0
  /\ lateWrites = 0
  /\ freedUse = 0

\* synch = __ares_create_synch(n); the creating thread goes on to
\* __ares_await_synch(synch)
SynchCreate ==
  /\ ~crashed
  /\ cpc = "synchCreate"
  /\ CreateSynch(hi)
  /\ cpc' = "await"
  /\ UNCHANGED <<lo, hi, outerV, argsStruct, idx, poolQueue, triples, wpc,
                 witem, written, queueLog, finishCalls, lateWrites,
                 freedUse>>
  /\ UNCHANGED notPFor

\* Synch::release() by another thread: sem_.release(), ++count_ with no
\* cap. At the largest int the increment overflows, which is undefined: the
\* value wraps, or the process traps.
SynchRelease ==
  /\ ~crashed
  /\ synchState = "live"
  /\ finishCalls < MaxRel
  /\ finishCalls' = finishCalls + 1
  /\ IF synchCount = MaxInt32
       THEN \/ synchCount' = MinInt32 /\ crashed' = FALSE
            \/ synchCount' = synchCount /\ crashed' = TRUE
       ELSE synchCount' = synchCount + 1 /\ crashed' = crashed
  /\ UNCHANGED <<cpc, lo, hi, outerV, argsStruct, idx, synchState,
                 poolQueue, triples, wpc, witem, written, createLog,
                 queueLog, lateWrites, freedUse>>
  /\ UNCHANGED notPFor

NextSynch ==
  \/ SynchCreate
  \/ SynchRelease
  \/ AwaitSynchAcquire
  \/ AwaitSynchDelete

SpecSynch == InitSynch /\ [][NextSynch]_vars

\* ------------------------------------------------------------------------
\* Properties of create_synch (SpecSynch)
\* ------------------------------------------------------------------------

\* c = -(n - 1), computed without leaving the 32-bit range
IsLatchCount(n, c) ==
  IF n >= 1 THEN c <= 0 /\ (n - 1) + c = 0
  ELSE c >= 1 /\ n + (c - 1) = 0

\* the synch has been created and nothing has been done to it yet
JustCreated == synchState = "live" /\ finishCalls = 0 /\ cpc = "await"

\* a synch created for n = 1 goes 0 -> +1 -> 0 with one release and the
\* acquire of the await
OneIteration ==
  hi = 1 =>
    /\ JustCreated => synchCount = 0
    /\ (cpc = "await" /\ synchState = "live" /\ finishCalls = 1) =>
         synchCount = 1
    /\ (cpc \in {"awaitDelete", "merge"} /\ finishCalls = 1) =>
         synchCount = 0

\* C12 as stated: create_synch(n) gives the initial count -(n-1) for every
\* 32-bit n, +1 for n = 0 and 0 for n = 1, where one release and one
\* acquire take the count 0 -> +1 -> 0.
C12_Original ==
  /\ JustCreated => IsLatchCount(hi, synchCount)
  /\ OneIteration

\* C12: create_synch(n) gives the initial count -(n-1) for every n, read
\* as a signed 32-bit value, for which n - 1 and -(n - 1) are both 32-bit
\* values, that is every n but the two most negative ones; +1 for n = 0
\* and 0 for n = 1, where one release and one acquire take the count
\* 0 -> +1 -> 0.
C12_InitialCount ==
  /\ (JustCreated /\ hi > MinInt32 + 1) => IsLatchCount(hi, synchCount)
  /\ OneIteration

\* a synch created for the largest n has been given its count
C12_Witness ==
  /\ JustCreated
  /\ hi = MaxInt32
  /\ synchCount = MinInt32 + 2

\* ------------------------------------------------------------------------
\* Ownership of the per-iteration records and of the synch
\* ------------------------------------------------------------------------

Freed(k) == ~triples[k].live
AllTriplesFreed == \A k \in 1..Len(triples) : Freed(k)

\* the step frees record k
FreesTriple(k) ==
  /\ k <= Len(triples)
  /\ triples[k].live
  /\ ~triples'[k].live

\* C13: finish_func(triple) releases the synch of the triple once and then
\* frees the triple; over a whole parallel-for every triple allocated by
\* queue_func is released once and freed once, never twice and never
\* leaked.
C13_FinishFunc ==
  /\ [][\A k \in 1..Len(triples) : FreesTriple(k) =>
          /\ synchCount' = synchCount + 1
          /\ finishCalls' = finishCalls + 1]_vars
  /\ [](freedUse = 0)
  /\ [](finishCalls = Cardinality({k \in 1..Len(triples) : Freed(k)}))
  /\ <>[]AllTriplesFreed

\* C14: await_synch(synch) acquires the synch once, taking its count from
\* +1 to 0, frees the synch only after that acquire has returned, and the
\* synch of each create_synch is freed exactly once.
C14_AwaitSynch ==
  /\ [][(cpc = "await" /\ cpc' /= "await") =>
          /\ synchCount = 1 /\ synchCount' = 0
          /\ cpc' = "awaitDelete"
          /\ synchState = "live" /\ synchState' = "live"]_vars
  /\ [][(synchState = "live" /\ synchCount' < synchCount) =>
          cpc = "await"]_vars
  /\ [][synchState' /= synchState =>
          \/ synchState = "none" /\ synchState' = "live"
          \/ /\ synchState = "live" /\ synchState' = "freed"
             /\ cpc = "awaitDelete" /\ cpc' = "merge"]_vars
  /\ (synchState = "live") ~> (synchState = "freed")

\* ------------------------------------------------------------------------
\* Properties of task_queue (SpecTask)
\* ------------------------------------------------------------------------

\* the work items a worker can see or has taken
VisibleItems ==
  {poolQueue[k] : k \in 1..Len(poolQueue)}
    \cup {witem[w] : w \in {v \in Workers : wpc[v] \notin {"idle", "absent"}}}

\* C15: task_queue(fn, args) allocates a fresh future semaphore with count
\* 0 and stores it in field 0 of args before the work item is visible to
\* any worker, pushes (fn, args, 0), and no two task_queue calls share a
\* future.
C15_TaskQueue ==
  /\ [](\A it \in VisibleItems :
          /\ it.fn = WrapperFn
          /\ it.priority = I32(0)
          /\ it.arg \in 1..Len(taskArgs)
          /\ taskArgs[it.arg].hasFuture)
  /\ [](\A c, d \in 1..Len(taskArgs) :
          (c /= d /\ taskArgs[c].hasFuture /\ taskArgs[d].hasFuture) =>
             taskArgs[c].futureId /= taskArgs[d].futureId)
  /\ [][\A c \in 1..Len(taskArgs) :
          (~taskArgs[c].hasFuture /\ taskArgs'[c].hasFuture) =>
             /\ taskArgs'[c].future = 0
             /\ \A it \in VisibleItems : it.arg /= c
             /\ poolQueue' = poolQueue]_vars
  /\ [][Len(poolQueue') > Len(poolQueue) =>
          \E c \in 1..Len(taskArgs) :
             /\ \A it \in VisibleItems : it.arg /= c
             /\ taskArgs[c].hasFuture /\ taskArgs[c].future = 0
             /\ poolQueue'[Len(poolQueue')] =
                  [fn |-> WrapperFn, arg |-> c, priority |-> I32(0)]
             /\ SubSeq(poolQueue', 1, Len(poolQueue)) = poolQueue]_vars

\* two tasks queued by different task_queue calls are visible to the
\* workers at once, each with its own future
C15_Witness ==
  /\ Len(poolQueue) >= 2
  /\ taskArgs[poolQueue[1].arg].futureId /= taskArgs[poolQueue[2].arg].futureId
  /\ \E w \in Workers : wpc[w] \in {"store2", "push2"}

\* ------------------------------------------------------------------------
\* Tasks and a parallel-for on a pool of one worker: main queues one or
\* more tasks (each returning its argument at once) and then runs a lowered
\* parallel-for
\* ------------------------------------------------------------------------

InitPrio ==
  /\ SemParked
  /\ CaptureParked
  /\ HLIRParked
  /\ DispatchParked
  /\ CreateParked
  /\ ReduceParked
  /\ ForceParked
  /\ TaskArgsParked
  /\ TaskLowerParked
  /\ RewriteParked
  /\ LowerParked
  /\ cpc = "parked"
  /\ lo \in (0 - MaxNeg)..MaxIdx
  /\ hi \in Max(lo, 0)..MaxIdx
  /\ outerV = 1
  /\ argsStruct = <<>>
  /\ idx = 0
  /\ synchState = "none"
  /\ synchCount = 0
  /\ poolQueue = <<>>
  /\ triples = <<>>
  /\ wpc = [w \in Workers |-> IF w = 1 THEN "idle" ELSE "absent"]
  /\ witem = [w \in Workers |-> NoItem]
  /\ crashed = FALSE
  /\ written = [i \in (0 - MaxNeg)..MaxIdx |-> 0]
  /\ createLog = <<>>
  /\ queueLog = <<>>
  /\ finishCalls = 0
  /\ lateWrites = 0
  /\ freedUse = 0
  /\ fibN = 0
  /\ awaitFirst = 1
  /\ taskArgs = <<>>
  /\ frame = [w \in Workers |-> NoFrame]
  /\ mpc = "call"
  /\ mres = 0

\* main: a lowered task call, up to the call of __ares_task_queue
PrioTaskCall ==
  /\ ~crashed
  /\ mpc = "call"
  /\ Len(taskArgs) < MaxTasks
  /\ \E a \in 0..1 : TaskAlloc(a)
  /\ mpc' = "queueStore"
  /\ UNCHANGED <<fibN, awaitFirst, frame, mres, poolQueue, wpc, witem>>
  /\ UNCHANGED notTask

\* main: __ares_task_queue(wrapper, args), first statement
PrioQueueStore ==
  /\ ~crashed
  /\ mpc = "queueStore"
  /\ TaskQueueStore(Len(taskArgs))
  /\ mpc' = "queuePush"
  /\ UNCHANGED <<fibN, awaitFirst, frame, mres, poolQueue, wpc, witem>>
  /\ UNCHANGED notTask

\* main: __ares_task_queue(wrapper, args), second statement
PrioQueuePush ==
  /\ ~crashed
  /\ mpc = "queuePush"
  /\ TaskQueuePush(Len(taskArgs))
  /\ mpc' = "call"
  /\ UNCHANGED <<fibN, awaitFirst, taskArgs, frame, mres, wpc, witem>>
  /\ UNCHANGED notTask

\* main: the tasks are queued; go on to the code emitted for the
\* parallel-for
PrioStartPFor ==
  /\ ~crashed
  /\ mpc = "call"
  /\ Len(taskArgs) >= 1
  /\ mpc' = "pfor"
  /\ cpc' = "marker"
  /\ UNCHANGED <<fibN, awaitFirst, taskArgs, frame, mres>>
  /\ UNCHANGED <<lo, hi, outerV, argsStruct, idx, synchState, synchCount,
                 poolQueue, triples, wpc, witem, crashed, written, createLog,
                 queueLog, finishCalls, lateWrites, freedUse>>
  /\ UNCHANGED <<semVars, capVars, hlirVars, lowerVars, rwVars, tlVars, taVars, fcVars, rdVars, crVars, dsVars>>

NextPrio ==
  \/ PrioTaskCall
  \/ PrioQueueStore
  \/ PrioQueuePush
  \/ PrioStartPFor
  \/ StoreCaptured
  \/ CreateSynchCall
  \/ QueueCall
  \/ LoopBranch
  \/ AwaitSynchAcquire
  \/ AwaitSynchDelete
  \/ \E w \in Workers : TaskTake(w)
  \/ \E w \in Workers : WrapperEntry(w)
  \/ \E w \in Workers : FibTest(w)
  \/ \E w \in Workers : WrapperStoreRet(w)
  \/ \E w \in Workers : WrapperRelease(w)
  \/ \E w \in Workers : WorkerCallsNonFunction(w)

SpecPrio == InitPrio /\ [][NextPrio]_vars

\* ------------------------------------------------------------------------
\* Properties of priorities (SpecPrio)
\* ------------------------------------------------------------------------

IsTaskItem(it) == it.fn = WrapperFn
QueuedIterations == {k \in 1..Len(poolQueue) : ~IsTaskItem(poolQueue[k])}
QueuedTasks == {k \in 1..Len(poolQueue) : IsTaskItem(poolQueue[k])}

\* the step takes a task from the queue
TakesTask ==
  /\ Len(poolQueue') < Len(poolQueue)
  /\ IsTaskItem(Head(poolQueue))

\* C16: parallel-for iterations are queued at priority 1 and tasks at
\* priority 0, and on a pool of one worker, with tasks queued before a
\* parallel-for, the worker takes no task while an iteration of the
\* parallel-for is waiting in the queue: all iterations run before any of
\* the tasks still queued.
C16_Priority ==
  /\ [](\A k \in QueuedTasks : poolQueue[k].priority = I32(0))
  /\ [](\A k \in QueuedIterations : poolQueue[k].priority = I32(1))
  /\ [][TakesTask => QueuedIterations = {}]_vars

\* ------------------------------------------------------------------------
\* The thread pool alone: a client pushes items of any priority, each
\* item's function returns at once, on a pool of 1 .. NumWorkers workers
\* ------------------------------------------------------------------------

InitPool ==
  /\ SemParked
  /\ CaptureParked
  /\ HLIRParked
  /\ DispatchParked
  /\ CreateParked
  /\ ReduceParked
  /\ ForceParked
  /\ TaskArgsParked
  /\ TaskLowerParked
  /\ RewriteParked
  /\ LowerParked
  /\ TaskParked
  /\ cpc = "pool"
  /\ lo = 0 /\ hi = 0 /\ outerV = 0 /\ idx = 0
  /\ argsStruct = <<>>
  /\ synchState = "none"
  /\ synchCount = 0
  /\ poolQueue = <<>>
  /\ triples = <<>>
  /\ \E n \in 1..NumWorkers :
       wpc = [w \in Workers |-> IF w <= n THEN "idle" ELSE "absent"]
  /\ witem = [w \in Workers |-> NoItem]
  /\ crashed = FALSE
  /\ written = [i \in (0 - MaxNeg)..MaxIdx |-> 0]
  /\ createLog = <<>>
  /\ queueLog = <<>>
  /\ finishCalls = 0
  /\ lateWrites = 0
  /\ freedUse = 0

\* _threadPool->push(fn, arg, priority) by the client; the k-th push
\* carries the argument k
PoolPushCall ==
  /\ cpc = "pool"
  /\ Len(queueLog) < MaxPush
  /\ \E p \in 0..MaxPrio :
       LET item == [fn |-> BodyFn, arg |-> Len(queueLog) + 1,
                    priority |-> I32(p)]
       IN /\ poolQueue' = PoolPush(poolQueue, item)
          /\ queueLog' = Append(queueLog, item)
  /\ UNCHANGED <<cpc, lo, hi, outerV, argsStruct, idx, synchState,
                 synchCount, triples, wpc, witem, crashed, written,
                 createLog, finishCalls, lateWrites, freedUse>>
  /\ UNCHANGED notPFor

\* worker loop: fn(arg) has returned
PoolItemReturn(w) ==
  /\ cpc = "pool"
  /\ wpc[w] = "call"
  /\ wpc' = [wpc EXCEPT ![w] = "idle"]
  /\ UNCHANGED <<cpc, lo, hi, outerV, argsStruct, idx, synchState,
                 synchCount, poolQueue, triples, witem, crashed, written,
                 createLog, queueLog, finishCalls, lateWrites, freedUse>>
  /\ UNCHANGED notPFor

NextPool ==
  \/ PoolPushCall
  \/ \E w \in Workers : WorkerTake(w)
  \/ \E w \in Workers : PoolItemReturn(w)

SpecPool == InitPool /\ [][NextPool]_vars

\* ------------------------------------------------------------------------
\* Properties of the thread pool (SpecPool)
\* ------------------------------------------------------------------------

Pushed == 1..Len(queueLog)
InQueue(a) == \E k \in 1..Len(poolQueue) : poolQueue[k].arg = a
Running(a) == \E w \in Workers : wpc[w] = "call" /\ witem[w].arg = a
Taken(a) == a \in Pushed /\ ~InQueue(a)
Completed(a) == Taken(a) /\ ~Running(a)
SamePriority(a, b) == queueLog[a].priority = queueLog[b].priority
OneWorker == Cardinality({w \in Workers : wpc[w] /= "absent"}) = 1

\* C17: FIFO among equal priorities. If A was pushed before B with the same
\* priority, a worker takes A before B is taken, whatever the number of
\* workers; on a pool of one worker items of the same priority complete in
\* the order pushed.
C17_FifoTies ==
  /\ \A a, b \in Pushed :
       (a < b /\ SamePriority(a, b) /\ Taken(b)) => Taken(a)
  /\ OneWorker =>
       \A a, b \in Pushed :
         (a < b /\ SamePriority(a, b) /\ Taken(b)) => Completed(a)

\* of two items of the same priority pushed one after the other, with an
\* item of another priority pushed between them, the first has been taken
\* and the second is still queued
C17_Witness ==
  /\ Len(queueLog) >= 3
  /\ SamePriority(1, 3)
  /\ ~SamePriority(1, 2)
  /\ Taken(1)
  /\ InQueue(3)

\* ------------------------------------------------------------------------
\* Captured values: the facade driven as in SpecRT by a caller that has
\* stored one outer value into its struct.func_args, the body holding the
\* loads lowerParallelFor_ inserts at the argsInsertion placeholder
\* ------------------------------------------------------------------------

InitCap ==
  /\ SemParked
  /\ CaptureParked
  /\ HLIRParked
  /\ DispatchParked
  /\ CreateParked
  /\ ReduceParked
  /\ ForceParked
  /\ TaskArgsParked
  /\ TaskLowerParked
  /\ RewriteParked
  /\ LowerParked
  /\ TaskParked
  /\ cpc = "rtStore"
  /\ lo = 0
  /\ hi \in 0..MaxIdx
  /\ outerV = 1
  /\ argsStruct = <<>>
  /\ idx = 0
  /\ synchState = "none"
  /\ synchCount = 0
  /\ poolQueue = <<>>
  /\ triples = <<>>
  /\ wpc = [w \in Workers |-> "idle"]
  /\ witem = [w \in Workers |-> NoItem]
  /\ crashed = FALSE
  /\ written = [i \in (0 - MaxNeg)..MaxIdx |-> 0]
  /\ createLog = <<>>
  /\ queueLog = <<>>
  /\ finishCalls = 0
  /\ lateWrites = 0
  /\ freedUse = 0

\* argsPtr = alloca argsType; store each captured value into its field
RTStoreCaptured ==
  /\ cpc = "rtStore"
  /\ argsStruct' = <<outerV>>
  /\ cpc' = "rtCreate"
  /\ UNCHANGED <<lo, hi, outerV, idx, synchState, synchCount, poolQueue,
                 triples, wpc, witem, crashed, written, createLog, queueLog,
                 finishCalls, lateWrites, freedUse>>
  /\ UNCHANGED notPFor

\* the loads at the placeholder: the captured value is loaded through
\* funcArgs.ptr, which the entry block loaded from field 2 of the record
\* the worker was handed. That record is a FuncArg, which has the fields
\* synch and n only, and __ares_queue_func has no parameter that carries
\* the pointer to the caller's struct: funcArgs.ptr is whatever lies behind
\* the record, and the load through it is undefined. It kills the process
\* or yields some word, which may happen to be the stored value.
BodyLoadCaptured(w) ==
  /\ ~crashed
  /\ wpc[w] = "loadArgs"
  /\ \/ /\ crashed' = TRUE
        /\ UNCHANGED <<wpc, capLoaded>>
     \/ /\ \E v \in Garbage \cup {argsStruct[1]} :
             capLoaded' = capLoaded \cup {v}
        /\ wpc' = [wpc EXCEPT ![w] = "finish"]
        /\ UNCHANGED crashed
  /\ UNCHANGED <<cpc, lo, hi, outerV, argsStruct, idx, synchState,
                 synchCount, poolQueue, triples, witem, written, createLog,
                 queueLog, finishCalls, lateWrites, freedUse>>
  /\ UNCHANGED notCapture

NextCap ==
  \/ RTStoreCaptured
  \/ NextRT
  \/ \E w \in Workers : BodyLoadCaptured(w)

SpecCap == InitCap /\ [][NextCap]_vars

\* C18: capture correctness. Every value a parallel-for body has loaded for
\* the captured outer value is the value the caller stored into the
\* captured-args struct before create_synch.
C18_Capture ==
  \A v \in capLoaded : argsStruct /= <<>> /\ v = argsStruct[1]

\* ------------------------------------------------------------------------
\* HLIR modules and constructs (hlir/src/HLIR.cpp): getModule called from
\* several threads, createParallelFor / createParallelReduce / createTask
\* called on the modules it returned
\* ------------------------------------------------------------------------

DigitChars == <<"0", "1", "2", "3", "4", "5", "6", "7", "8", "9">>

\* toStr of a size_t: its decimal digits
RECURSIVE ToStr(_)
ToStr(n) ==
  IF n < 10 THEN <<DigitChars[n + 1]>>
  ELSE ToStr(n \div 10) \o <<DigitChars[(n % 10) + 1]>>

ModulePrefix == <<"m", "o", "d", "u", "l", "e">>
PForPrefix == <<"p", "f", "o", "r">>
ReducePrefix == <<"r", "e", "d", "u", "c", "e">>
TaskPrefix == <<"t", "a", "s", "k">>

\* createId(): return _nextId++ -- the value _nextId has afterwards
CreateIdNextOff(n) == n
CreateIdNext(n) == n + 1

\* createName(prefix): prefix + toStr(createId())
CreateName(prefix) == prefix \o ToStr(nextId)

\* map[key] = value on a map kept as a set of pairs
MapStore(map, key, value) ==
  {e \in map : e[1] /= key} \cup {<<key, value>>}

\* Guard guard(_mutex) can be constructed
GuardFreeOff == TRUE
GuardFree == gmutex = 0

InitHLIR ==
  /\ SemParked
  /\ CaptureParked
  /\ HLIRParked
  /\ DispatchParked
  /\ CreateParked
  /\ ReduceParked
  /\ ForceParked
  /\ TaskArgsParked
  /\ TaskLowerParked
  /\ RewriteParked
  /\ LowerParked
  /\ PForParked
  /\ TaskParked

\* a thread calls HLIRModule::getModule(module)
GetModuleCall(t, ir) ==
  /\ gpc[t] = "idle"
  /\ gpc' = [gpc EXCEPT ![t] = "guard"]
  /\ gloc' = [gloc EXCEPT ![t] = [module |-> ir, m |-> 0]]
  /\ UNCHANGED <<nextId, moduleMap, moduleNameMap, hmods, objs, gmutex,
                 returned>>
  /\ UNCHANGED notHLIR

\* Guard guard(_mutex);
GetModuleGuard(t) ==
  /\ gpc[t] = "guard"
  /\ GuardFree
  /\ gmutex' = t
  /\ gpc' = [gpc EXCEPT ![t] = "find"]
  /\ UNCHANGED <<nextId, moduleMap, moduleNameMap, hmods, objs, gloc,
                 returned>>
  /\ UNCHANGED notHLIR

\* auto itr = _moduleMap.find(module); if(itr == _moduleMap.end()) ...
\* else return itr->second
GetModuleFind(t) ==
  /\ gpc[t] = "find"
  /\ IF moduleMap[gloc[t].module] = 0
       THEN /\ gpc' = [gpc EXCEPT ![t] = "new"]
            /\ UNCHANGED gloc
       ELSE /\ gpc' = [gpc EXCEPT ![t] = "ret"]
            /\ gloc' = [gloc EXCEPT ![t].m = moduleMap[gloc[t].module]]
  /\ UNCHANGED <<nextId, moduleMap, moduleNameMap, hmods, objs, gmutex,
                 returned>>
  /\ UNCHANGED notHLIR

\* auto m = new HLIRModule(module); m->setName(createName("module"));
GetModuleNew(t) ==
  /\ gpc[t] = "new"
  /\ hmods' = Append(hmods, [ir |-> gloc[t].module,
                             name |-> CreateName(ModulePrefix),
                             constructs |-> <<>>,
                             byName |-> {}])
  /\ nextId' = CreateIdNext(nextId)
  /\ gloc' = [gloc EXCEPT ![t].m = Len(hmods) + 1]
  /\ gpc' = [gpc EXCEPT ![t] = "insert"]
  /\ UNCHANGED <<moduleMap, moduleNameMap, objs, gmutex, returned>>
  /\ UNCHANGED notHLIR

\* _moduleMap[module] = m;
GetModuleInsert(t) ==
  /\ gpc[t] = "insert"
  /\ moduleMap' = [moduleMap EXCEPT ![gloc[t].module] = gloc[t].m]
  /\ gpc' = [gpc EXCEPT ![t] = "insertName"]
  /\ UNCHANGED <<nextId, moduleNameMap, hmods, objs, gmutex, gloc,
                 returned>>
  /\ UNCHANGED notHLIR

\* _moduleNameMap[m->name()] = m;
GetModuleInsertName(t) ==
  /\ gpc[t] = "insertName"
  /\ moduleNameMap' =
       MapStore(moduleNameMap, hmods[gloc[t].m].name, gloc[t].m)
  /\ gpc' = [gpc EXCEPT ![t] = "ret"]
  /\ UNCHANGED <<nextId, moduleMap, hmods, objs, gmutex, gloc, returned>>
  /\ UNCHANGED notHLIR

\* return m / return itr->second; the guard goes out of scope
GetModuleReturn(t) ==
  /\ gpc[t] = "ret"
  /\ returned' = returned \cup {[t |-> t, module |-> gloc[t].module,
                                  m |-> gloc[t].m]}
  /\ gmutex' = 0
  /\ gpc' = [gpc EXCEPT ![t] = "idle"]
  /\ gloc' = [gloc EXCEPT ![t] = NoLocals]
  /\ UNCHANGED <<nextId, moduleMap, moduleNameMap, hmods, objs>>
  /\ UNCHANGED notHLIR

\* the HLIRModules callers hold
Handles == {r.m : r \in returned}

\* the body shared by createParallelFor, createParallelReduce, createTask:
\*   auto c = new C(this); constructs_.push_back(c);
\*   string name = createName(prefix); c->setName(name);
\*   (*this)[name] = c; return c;
\* The three take no lock; they are called one at a time, no getModule
\* call being in progress.
CreateConstruct(h, kind, prefix) ==
  /\ \A t \in Callers : gpc[t] = "idle"
  /\ Len(objs) < MaxConstructs
  /\ LET name == CreateName(prefix)
         c == Len(objs) + 1
     IN /\ objs' = Append(objs, [kind |-> kind, name |-> name, owner |-> h])
        /\ hmods' = [hmods EXCEPT
                       ![h].constructs = Append(@, c),
                       ![h].byName = MapStore(@, name, c)]
  /\ nextId' = CreateIdNext(nextId)
  /\ UNCHANGED <<moduleMap, moduleNameMap, gmutex, gpc, gloc, returned>>
  /\ UNCHANGED notHLIR

\* HLIRModule::createParallelFor() on a module a caller holds
CreateParallelFor(h) ==
  /\ h \in Handles
  /\ CreateConstruct(h, "pfor", PForPrefix)

\* HLIRModule::createParallelReduce(reduceType)
CreateParallelReduce(h) ==
  /\ h \in Handles
  /\ CreateConstruct(h, "reduce", ReducePrefix)

\* HLIRModule::createTask()
CreateTask(h) ==
  /\ h \in Handles
  /\ CreateConstruct(h, "task", TaskPrefix)

\* getModule called from every thread
NextGetModule ==
  \/ \E t \in Callers, ir \in IRModules : GetModuleCall(t, ir)
  \/ \E t \in Callers : GetModuleGuard(t)
  \/ \E t \in Callers : GetModuleFind(t)
  \/ \E t \in Callers : GetModuleNew(t)
  \/ \E t \in Callers : GetModuleInsert(t)
  \/ \E t \in Callers : GetModuleInsertName(t)
  \/ \E t \in Callers : GetModuleReturn(t)

SpecGetModule == InitHLIR /\ [][NextGetModule]_vars

\* one thread that calls getModule and the three create functions, one
\* call after the other
NextNaming ==
  \/ \E ir \in IRModules : GetModuleCall(1, ir)
  \/ GetModuleGuard(1)
  \/ GetModuleFind(1)
  \/ GetModuleNew(1)
  \/ GetModuleInsert(1)
  \/ GetModuleInsertName(1)
  \/ GetModuleReturn(1)
  \/ \E h \in 1..NumIRModules : CreateParallelFor(h)
  \/ \E h \in 1..NumIRModules : CreateParallelReduce(h)
  \/ \E h \in 1..NumIRModules : CreateTask(h)

SpecNaming == InitHLIR /\ [][NextNaming]_vars

\* ------------------------------------------------------------------------
\* Properties of the HLIR registries (SpecGetModule, SpecNaming)
\* ------------------------------------------------------------------------

Seen == {r.module : r \in returned}

\* C19: getModule is a singleton per IR module under concurrency. Calls
\* with the same IR module have returned the same HLIRModule and calls with
\* different IR modules different ones, from whatever threads; and while no
\* call is inside getModule both registries hold exactly one entry for
\* each IR module seen, and one HLIRModule exists for each.
C19_Singleton ==
  /\ \A r, q \in returned : (r.module = q.module) <=> (r.m = q.m)
  /\ gmutex = 0 =>
       /\ \A ir \in IRModules : (moduleMap[ir] /= 0) <=> (ir \in Seen)
       /\ \A ir \in Seen :
            /\ hmods[moduleMap[ir]].ir = ir
            /\ {e \in moduleNameMap : e[2] = moduleMap[ir]}
                 = {<<hmods[moduleMap[ir]].name, moduleMap[ir]>>}
       /\ Cardinality(moduleNameMap) = Cardinality(Seen)
       /\ Len(hmods) = Cardinality(Seen)

\* two threads have been returned the same HLIRModule for one IR module,
\* and a call for another IR module has returned another one
C19_Witness ==
  \E r, q, o \in returned :
    /\ r.t /= q.t
    /\ r.module = q.module
    /\ r.m = q.m
    /\ o.module /= r.module
    /\ o.m /= r.m

DigitTable ==
  [c \in {DigitChars[k] : k \in 1..10} |->
     CHOOSE d \in 0..9 : DigitChars[d + 1] = c]
IsDigit(c) == c \in DOMAIN DigitTable
DigitVal(c) == DigitTable[c]

\* the number a name ends with
RECURSIVE NumberUpTo(_, _)
NumberUpTo(name, k) ==
  IF k = 0 \/ ~IsDigit(name[k]) THEN 0
  ELSE NumberUpTo(name, k - 1) * 10 + DigitVal(name[k])
IdOf(name) == NumberUpTo(name, Len(name))

KindPrefix(kind) ==
  CASE kind = "pfor" -> PForPrefix
    [] kind = "reduce" -> ReducePrefix
    [] kind = "task" -> TaskPrefix

Constructs == 1..Len(objs)

\* C20: construct naming. Every construct created so far carries its
\* kind's prefix followed by a number, the names are distinct, a construct
\* created later has a strictly greater number, and each module's construct
\* list holds exactly its constructs, in the order they were created.
C20_Naming ==
  /\ LET id == [c \in Constructs |-> IdOf(objs[c].name)] IN
       /\ \A c \in Constructs :
            objs[c].name = KindPrefix(objs[c].kind) \o ToStr(id[c])
       /\ \A c, d \in Constructs :
            c < d => objs[c].name /= objs[d].name /\ id[c] < id[d]
  /\ \A h \in 1..Len(hmods) :
       LET list == hmods[h].constructs IN
         /\ {list[k] : k \in 1..Len(list)}
              = {c \in Constructs : objs[c].owner = h}
         /\ \A k, l \in 1..Len(list) : k < l => list[k] < list[l]

\* constructs of the three kinds exist, in two modules, the second module
\* having been created by getModule after the first construct
C20_Witness ==
  /\ {objs[c].kind : c \in Constructs} = {"pfor", "reduce", "task"}
  /\ {objs[c].owner : c \in Constructs} = {1, 2}
  /\ Len(hmods) = 2
  /\ IdOf(objs[1].name) < IdOf(hmods[2].name)

\* ------------------------------------------------------------------------
\* HLIRModule::lowerToIR_ (hlir/src/HLIR.cpp): the loop over constructs_
\* ------------------------------------------------------------------------

\* the kinds the create functions make, and a construct of another class
ConstructKinds == {"pfor", "reduce", "task"}
OtherKind == "other"

\* the sequences over S of length up to n
RECURSIVE SeqsUpTo(_, _)
SeqsUpTo(S, n) ==
  IF n = 0 THEN {<<>>}
  ELSE LET shorter == SeqsUpTo(S, n - 1)
       IN shorter \cup {Append(q, x) : q \in shorter, x \in S}

\* a module with any list of constructs, built with or without NDEBUG
InitLower ==
  /\ SemParked
  /\ CaptureParked
  /\ HLIRParked
  /\ DispatchParked
  /\ CreateParked
  /\ ReduceParked
  /\ ForceParked
  /\ TaskArgsParked
  /\ TaskLowerParked
  /\ RewriteParked
  /\ PForParked
  /\ TaskParked
  /\ assertsOn \in BOOLEAN
  /\ lowerList \in SeqsUpTo(ConstructKinds \cup {OtherKind}, MaxConstructs)
  /\ lowerState = "idle"
  /\ lowerPos = 0
  /\ lowerLog = <<>>

\* lowerToIR_() is called: for(HLIRConstruct* c : constructs_)
LowerToIRCall ==
  /\ lowerState = "idle"
  /\ lowerState' = "loop"
  /\ lowerPos' = 1
  /\ UNCHANGED <<assertsOn, lowerList, lowerLog>>
  /\ UNCHANGED notLower

\* one arm of the dynamic_cast chain: the routine is called with c
LowerDispatch(kind, routine) ==
  /\ lowerState = "loop"
  /\ lowerPos <= Len(lowerList)
  /\ lowerList[lowerPos] = kind
  /\ lowerLog' = Append(lowerLog, [c |-> lowerPos, routine |-> routine])
  /\ lowerPos' = lowerPos + 1
  /\ UNCHANGED <<assertsOn, lowerList, lowerState>>

\* if(auto pfor = dynamic_cast<HLIRParallelFor*>(c)) lowerParallelFor_(pfor);
LowerPForArm ==
  /\ LowerDispatch("pfor", "lowerParallelFor_")
  /\ UNCHANGED notLower

\* else if(auto r = dynamic_cast<HLIRParallelReduce*>(c))
\*   lowerParallelReduce_(r);
LowerReduceArm ==
  /\ LowerDispatch("reduce", "lowerParallelReduce_")
  /\ UNCHANGED notLower

\* else if(auto task = dynamic_cast<HLIRTask*>(c)) lowerTask_(task);
LowerTaskArm ==
  /\ LowerDispatch("task", "lowerTask_")
  /\ UNCHANGED notLower

\* else assert(false && "unknown HLIR construct"): the process aborts when
\* assert is compiled in; under NDEBUG the statement is empty and the loop
\* goes on with the next construct
LowerElseArm ==
  /\ lowerState = "loop"
  /\ lowerPos <= Len(lowerList)
  /\ lowerList[lowerPos] \notin ConstructKinds
  /\ IF assertsOn
       THEN lowerState' = "aborted" /\ lowerPos' = lowerPos
       ELSE lowerState' = lowerState /\ lowerPos' = lowerPos + 1
  /\ UNCHANGED <<assertsOn, lowerList, lowerLog>>
  /\ UNCHANGED notLower

\* the loop is over: return true
LowerReturn ==
  /\ lowerState = "loop"
  /\ lowerPos > Len(lowerList)
  /\ lowerState' = "returned"
  /\ UNCHANGED <<assertsOn, lowerList, lowerPos, lowerLog>>
  /\ UNCHANGED notLower

NextLower ==
  \/ LowerToIRCall
  \/ LowerPForArm
  \/ LowerReduceArm
  \/ LowerTaskArm
  \/ LowerElseArm
  \/ LowerReturn

SpecLower == InitLower /\ [][NextLower]_vars

\* ------------------------------------------------------------------------
\* Properties of lowerToIR_ (SpecLower)
\* ------------------------------------------------------------------------

RoutineOf(kind) ==
  CASE kind = "pfor" -> "lowerParallelFor_"
    [] kind = "reduce" -> "lowerParallelReduce_"
    [] kind = "task" -> "lowerTask_"

\* the constructs the loop has gone past
LowerPassed == 1..(lowerPos - 1)

AtInsertion == {w \in Workers : wpc[w] = "user"}

\* C22: body function shape. The IR inserted at the 'insertion' attribute
\* runs before the call of finish_func: an invocation that stands at the
\* insertion point has not yet released and freed its triple.
C22_BodyShape ==
  \A w \in AtInsertion : triples[witem[w].arg].live

\* ------------------------------------------------------------------------
\* The queue loop of the lowered caller (SpecPFor)
\* ------------------------------------------------------------------------

\* the caller has left pfor.queue.loop
LoopLeft == cpc \in {"await", "awaitDelete", "merge"}

\* the operands of the k-th queue_func call of a loop over [lo, hi)
QueueOperands(k) == <<SynchPtr, ArgsPtr, BodyFn, I32(lo + k - 1), I32(1)>>

\* C23: queue loop. Over [start, end) with start < end the caller calls
\* queue_func once for each index start .. end-1, in increasing order, with
\* the synch, the captured-args pointer, the body function and priority 1;
\* when the loop is left it has made end - start calls, the count it passed
\* to create_synch.
C23_QueueLoop ==
  lo < hi =>
    /\ Len(queueLog) <= hi - lo
    /\ \A k \in 1..Len(queueLog) : queueLog[k] = QueueOperands(k)
    /\ LoopLeft => /\ Len(queueLog) = hi - lo
                   /\ createLog = <<Len(queueLog)>>

\* C24: signed ranges. For start < end as signed integers, negative start
\* included, the index comparison does not end the loop early: the caller
\* does not reach await_synch with fewer than end - start work items
\* queued, so that the latch can open.
C24_SignedRange ==
  (lo < hi /\ cpc = "await") => Len(triples) >= hi - lo

\* ------------------------------------------------------------------------
\* Lifetime of the synch and of the triples (SpecPFor, SpecRT)
\* ------------------------------------------------------------------------

\* the body invocations that have not yet called finish_func
BeforeFinish ==
  {w \in Workers : wpc[w] \in {"call", "finish"} /\ witem[w].fn = BodyFn}

\* the work items whose finish_func call is still to come
Unfinished == {k \in 1..Len(triples) : triples[k].live}

PastMarker == cpc = "merge"

\* C26: lowered caller ordering. The captured values are stored first,
\* then create_synch is called, once, then come the queue_func calls, then
\* await_synch, once, and the instructions that followed the marker run
\* only after await_synch has returned, having deleted the synch.
C26_CallerOrder ==
  /\ [](/\ Len(createLog) <= 1
        /\ createLog /= <<>> => argsStruct /= <<>>
        /\ queueLog /= <<>> => createLog /= <<>>
        /\ PastMarker => synchState = "freed" /\ queueLog /= <<>>
        /\ synchState = "freed" => PastMarker)
  /\ [][/\ argsStruct' /= argsStruct =>
             argsStruct = <<>> /\ createLog = <<>>
        /\ createLog' /= createLog =>
             queueLog = <<>> /\ synchState = "none" /\ synchState' = "live"
        /\ queueLog' /= queueLog =>
             synchState = "live" /\ ~LoopLeft /\ Len(queueLog') = Len(queueLog) + 1
        /\ LoopLeft => queueLog' = queueLog /\ createLog' = createLog
        /\ synchState' /= synchState =>
             \/ synchState = "none" /\ synchState' = "live"
             \/ synchState = "live" /\ synchState' = "freed" /\ PastMarker'
        /\ PastMarker' /\ ~PastMarker => cpc = "awaitDelete"]_vars

\* the caller is past the marker: it has stored the captured value, called
\* create_synch once, queue_func, and await_synch has returned
C26_Witness ==
  /\ PastMarker
  /\ argsStruct = <<outerV>>
  /\ Len(createLog) = 1
  /\ Len(queueLog) >= 1
  /\ synchState = "freed"

\* ------------------------------------------------------------------------
\* Capture of outer values by lowerParallelFor_ (hlir/src/HLIR.cpp
\* 87-99, 170-210): findExternalValues, the loads and the rewriting of the
\* uses, the stores. Instructions have two operands; an operand is an outer
\* value (an instruction of the calling function) or a value of the
\* instruction's own function. Use lists are LLVM's: a use enters the list
\* of its value at the head, and leaves it when the operand is set anew.
\* ------------------------------------------------------------------------

Outer(x) == [kind |-> "outer", id |-> x]
Own == [kind |-> "own", id |-> 0]
Load(i) == [kind |-> "load", id |-> i]

OuterValues == {Outer(x) : x \in 1..NumOuter}
InstShapes ==
  [fn : {"body", "caller"},
   ops : {<<a, b>> : a \in OuterValues \cup {Own}, b \in OuterValues \cup {Own}}]

\* the uses of the instructions 1 .. n, in the order the operands were set
RECURSIVE UsesAsc(_)
UsesAsc(n) == IF n = 0 THEN <<>> ELSE UsesAsc(n - 1) \o <<<<n, 1>>, <<n, 2>>>>

\* the same, most recent first
RECURSIVE UsesDesc(_)
UsesDesc(n) == IF n = 0 THEN <<>> ELSE <<<<n, 2>>, <<n, 1>>>> \o UsesDesc(n - 1)

OperandAt(insts, u) == insts[u[1]].ops[u[2]]

\* the use list of value x when the instructions have just been created
UseListOf(insts, x) ==
  LET Uses(u) == OperandAt(insts, u) = x
  IN SelectSeq(UsesDesc(Len(insts)), Uses)

\* findExternalValues(f, v): for each instruction of f, for each operand,
\* if the operand is an instruction whose function is not f, v.push_back
FindExternalValues(insts) ==
  LET External(u) ==
        /\ insts[u[1]].fn = "body"
        /\ OperandAt(insts, u).kind = "outer"
      found == SelectSeq(UsesAsc(Len(insts)), External)
  IN [k \in 1..Len(found) |-> OperandAt(insts, found[k])]

\* a body and the code of the caller around it, before the lowering
InitRewrite ==
  /\ SemParked
  /\ CaptureParked
  /\ HLIRParked
  /\ DispatchParked
  /\ CreateParked
  /\ ReduceParked
  /\ ForceParked
  /\ TaskArgsParked
  /\ TaskLowerParked
  /\ LowerParked
  /\ PForParked
  /\ TaskParked
  /\ rwInsts \in SeqsUpTo(InstShapes, MaxInsts)
  /\ \E k \in 1..Len(rwInsts) : rwInsts[k].fn = "body"
  /\ rwInsts0 = rwInsts
  /\ rwUses = [x \in 1..NumOuter |-> UseListOf(rwInsts, Outer(x))]
  /\ rwLoads = <<>>
  /\ rwV = <<>>
  /\ rwI = 0
  /\ rwIt = NoUse
  /\ rwFields = <<>>
  /\ rwPc = "find"

\* vector<Instruction*> v; findExternalValues(pf->body(), v);
\* one field of struct.func_args per element of v
RewriteFind ==
  /\ rwPc = "find"
  /\ rwV' = FindExternalValues(rwInsts)
  /\ rwI' = 1
  /\ rwPc' = "load"
  /\ UNCHANGED <<rwInsts, rwInsts0, rwUses, rwLoads, rwIt, rwFields>>
  /\ UNCHANGED notRewrite

\* the first of a use list, and the use that follows u in the list it is in
FirstUse(list) == IF list = <<>> THEN NoUse ELSE list[1]
FollowingIn(list, u) ==
  LET p == CHOOSE q \in 1..Len(list) : list[q] = u
  IN IF p < Len(list) THEN list[p + 1] ELSE NoUse
UseLists(uses, loads) ==
  {uses[x] : x \in DOMAIN uses} \cup {loads[i] : i \in DOMAIN loads}
NextUse(uses, loads, u) ==
  LET list == CHOOSE l \in UseLists(uses, loads) :
                \E q \in 1..Len(l) : l[q] = u
  IN FollowingIn(list, u)

\* for(Instruction* vi : v): gi = GEP field i; ri = load gi; the iteration
\* over vi->uses() starts at the head of the use list of vi
RewriteLoad ==
  /\ rwPc = "load"
  /\ rwI <= Len(rwV)
  /\ rwLoads' = Append(rwLoads, <<>>)
  /\ rwIt' = FirstUse(rwUses[rwV[rwI].id])
  /\ rwPc' = "uses"
  /\ UNCHANGED <<rwInsts, rwInsts0, rwUses, rwV, rwI, rwFields>>
  /\ UNCHANGED notRewrite

\* the use is set to the load: it leaves the list of the value it had and
\* enters the list of the load at the head
Unlink(list, u) == LET Other(w) == w /= u IN SelectSeq(list, Other)
SetOperand(st, u, i) ==
  [insts |-> [st.insts EXCEPT ![u[1]].ops[u[2]] = Load(i)],
   uses |-> [x \in DOMAIN st.uses |-> Unlink(st.uses[x], u)],
   loads |-> [st.loads EXCEPT ![i] = <<u>> \o @]]

\* user->replaceUsesOfWith(from, ri): each operand of the user that is
\* from is set to ri, first operand first
ReplaceUsesOfWith(st, user, from, i) ==
  LET s1 == IF st.insts[user].ops[1] = from
              THEN SetOperand(st, <<user, 1>>, i) ELSE st
  IN IF s1.insts[user].ops[2] = from
       THEN SetOperand(s1, <<user, 2>>, i) ELSE s1

\* inst && inst->getParent()->getParent() == pf->body()
RewritesUserOff(insts, user) == TRUE
RewritesUser(insts, user) == insts[user].fn = "body"

\* one turn of for(Use& u : vi->uses()): the user of u is rewritten if it
\* is in the body, then the iteration goes on with the use that follows u
\* in the list u is in by then
RewriteUse ==
  /\ rwPc = "uses"
  /\ rwIt /= NoUse
  /\ LET st == [insts |-> rwInsts, uses |-> rwUses, loads |-> rwLoads]
         after == IF RewritesUser(rwInsts, rwIt[1])
                    THEN ReplaceUsesOfWith(st, rwIt[1], rwV[rwI], rwI)
                    ELSE st
     IN /\ rwInsts' = after.insts
        /\ rwUses' = after.uses
        /\ rwLoads' = after.loads
        /\ rwIt' = NextUse(after.uses, after.loads, rwIt)
  /\ UNCHANGED <<rwInsts0, rwV, rwI, rwFields, rwPc>>
  /\ UNCHANGED notRewrite

\* the iteration over the uses is over: ++i
RewriteNext ==
  /\ rwPc = "uses"
  /\ rwIt = NoUse
  /\ rwI' = rwI + 1
  /\ rwPc' = "load"
  /\ UNCHANGED <<rwInsts, rwInsts0, rwUses, rwLoads, rwV, rwIt, rwFields>>
  /\ UNCHANGED notRewrite

\* at the marker: argsPtr = alloca argsType; for each i, store v[i] into
\* field i
RewriteStore ==
  /\ rwPc = "load"
  /\ rwI > Len(rwV)
  /\ rwFields' = rwV
  /\ rwPc' = "done"
  /\ UNCHANGED <<rwInsts, rwInsts0, rwUses, rwLoads, rwV, rwI, rwIt>>
  /\ UNCHANGED notRewrite

NextRewrite ==
  \/ RewriteFind
  \/ RewriteLoad
  \/ RewriteUse
  \/ RewriteNext
  \/ RewriteStore

SpecRewrite == InitRewrite /\ [][NextRewrite]_vars

\* the operands of the body that are outer values, in the order the body
\* is scanned, as the body was before the lowering
BodyOuterUses ==
  LET External(u) ==
        /\ rwInsts0[u[1]].fn = "body"
        /\ OperandAt(rwInsts0, u).kind = "outer"
  IN SelectSeq(UsesAsc(Len(rwInsts0)), External)

\* C27: the list of captured values holds each outer value that the body
\* uses exactly once, in the order the values are first met, so that the
\* structure of captured arguments has one field per distinct outer value
C27_CaptureSet ==
  rwPc = "done" =>
    /\ \A i, j \in DOMAIN rwFields : rwFields[i] = rwFields[j] => i = j
    /\ {rwFields[i] : i \in DOMAIN rwFields}
         = {OperandAt(rwInsts0, BodyOuterUses[k]) : k \in DOMAIN BodyOuterUses}
    /\ \A i, j \in DOMAIN rwFields :
         i < j =>
           \E k \in DOMAIN BodyOuterUses :
             /\ OperandAt(rwInsts0, BodyOuterUses[k]) = rwFields[i]
             /\ \A l \in 1..k :
                  OperandAt(rwInsts0, BodyOuterUses[l]) /= rwFields[j]

AllUses == {u \in (1..Len(rwInsts0)) \X (1..2) : TRUE}

\* C28: when the lowering is done, each operand of the body that was an
\* outer value v is the load of a field that holds v, the body has no
\* outer operand left, and each operand outside the body is what it was
C28_UseRewriting ==
  rwPc = "done" =>
    \A u \in AllUses :
      LET was == OperandAt(rwInsts0, u)
          is == OperandAt(rwInsts, u)
      IN /\ rwInsts[u[1]].fn = rwInsts0[u[1]].fn
         /\ (rwInsts0[u[1]].fn = "body" /\ was.kind = "outer") =>
              /\ is.kind = "load"
              /\ is.id \in DOMAIN rwFields
              /\ rwFields[is.id] = was
         /\ (rwInsts0[u[1]].fn = "body" /\ was.kind /= "outer") => is = was
         /\ rwInsts0[u[1]].fn /= "body" => is = was

\* a lowering is done in which an outer value was used in the body and, by
\* a later instruction, outside: the pass met the use outside first
C28_Witness ==
  /\ rwPc = "done"
  /\ \E u, w \in AllUses :
       /\ u[1] /= w[1]
       /\ OperandAt(rwInsts0, u) = OperandAt(rwInsts0, w)
       /\ OperandAt(rwInsts0, u).kind = "outer"
       /\ rwInsts0[u[1]].fn = "body"
       /\ rwInsts0[w[1]].fn = "caller"
       /\ u[1] < w[1]

\* ------------------------------------------------------------------------
\* lowerTask_ (hlir/src/HLIR.cpp 284-372): the loop over the uses of the
\* task function. The use list holds the call the wrapper makes
\* (setFunction, 555) and the calls of the program, which may be in the
\* task function itself. ci->eraseFromParent() destroys the call and with
\* it the Use that itr points at; the ++itr that follows reads that Use.
\* ------------------------------------------------------------------------

NoArg == <<0, 0>>
Ins(o, f, v) == [op |-> o, field |-> f, val |-> v]

\* the i-th operand of the call at site s
ArgOf(s, i) == <<s, i>>

\* what is emitted in front of a call with n arguments: the allocation of
\* the structure, the load of the depth, the store of each argument into
\* the fields from 3 on, the call of __ares_task_queue with the wrapper
ArgField(i) == 3 + (i - 1)
CallSiteStores(s, n) == [i \in 1..n |-> Ins("store", ArgField(i), ArgOf(s, i))]
CallSiteCode(s, n) ==
  <<Ins("alloc", 0, NoArg), Ins("load", 1, NoArg)>>
    \o CallSiteStores(s, n)
    \o <<Ins("task_queue", 0, NoArg)>>

\* what is emitted in front of the first user of the call, if it has one:
\* the call of __ares_task_await_future and the load of field 2, which
\* replaces the call in all its uses
AwaitCode(used) ==
  IF used
    THEN <<Ins("task_await_future", 0, NoArg), Ins("load", 2, NoArg)>>
    ELSE <<>>

TaskSites ==
  [fn : {"wrapper", "caller"}, used : BOOLEAN, state : {"call"},
   code : {<<>>}]

InitTaskLower ==
  /\ SemParked
  /\ CaptureParked
  /\ HLIRParked
  /\ DispatchParked
  /\ CreateParked
  /\ ReduceParked
  /\ ForceParked
  /\ TaskArgsParked
  /\ LowerParked
  /\ RewriteParked
  /\ PForParked
  /\ TaskParked
  /\ tlSites \in SeqsUpTo(TaskSites, MaxSites)
  /\ Cardinality({k \in 1..Len(tlSites) : tlSites[k].fn = "wrapper"}) = 1
  /\ \A k \in 1..Len(tlSites) : tlSites[k].fn = "wrapper" => tlSites[k].used
  /\ tlNArgs \in 0..MaxArgs
  /\ tlItr = 1
  /\ tlDangling = FALSE
  /\ tlPc = "loop"

\* the position that follows p: the next use of the list, or the end
Following(p) == IF p < Len(tlSites) THEN p + 1 ELSE 0

\* parentFunc == wrapperFunc: continue, and ++itr
TaskLowerSkip ==
  /\ tlPc = "loop"
  /\ tlItr /= 0
  /\ ~tlDangling
  /\ tlSites[tlItr].fn = "wrapper"
  /\ tlItr' = Following(tlItr)
  /\ UNCHANGED <<tlSites, tlNArgs, tlDangling, tlPc>>
  /\ UNCHANGED notTaskLower

\* a call outside the wrapper: the code in front of it, the await and the
\* load in front of its first user, ci->eraseFromParent()
TaskLowerSite ==
  /\ tlPc = "loop"
  /\ tlItr /= 0
  /\ ~tlDangling
  /\ tlSites[tlItr].fn /= "wrapper"
  /\ tlSites' =
       [tlSites EXCEPT ![tlItr].state = "erased",
                       ![tlItr].code = CallSiteCode(tlItr, tlNArgs)
                                         \o AwaitCode(tlSites[tlItr].used)]
  /\ tlDangling' = TRUE
  /\ UNCHANGED <<tlNArgs, tlItr, tlPc>>
  /\ UNCHANGED notTaskLower

\* ++itr when the Use was destroyed with the call: the memory of the Use
\* is read after it was freed. The pointer read is the one the Use had
\* (the use that follows), or null (the end), or no use at all.
StaleNextOutcomes == {"intact", "null", "wild"}
TaskLowerStaleNext ==
  /\ tlPc = "loop"
  /\ tlDangling
  /\ \E outcome \in StaleNextOutcomes :
       \/ /\ outcome = "intact"
          /\ tlItr' = Following(tlItr)
          /\ tlPc' = tlPc
       \/ /\ outcome = "null"
          /\ tlItr' = 0
          /\ tlPc' = tlPc
       \/ /\ outcome = "wild"
          /\ tlItr' = tlItr
          /\ tlPc' = "crashed"
  /\ tlDangling' = FALSE
  /\ UNCHANGED <<tlSites, tlNArgs>>
  /\ UNCHANGED notTaskLower

\* itr == itrEnd
TaskLowerReturn ==
  /\ tlPc = "loop"
  /\ tlItr = 0
  /\ ~tlDangling
  /\ tlPc' = "done"
  /\ UNCHANGED <<tlSites, tlNArgs, tlItr, tlDangling>>
  /\ UNCHANGED notTaskLower

NextTaskLower ==
  \/ TaskLowerSkip
  \/ TaskLowerSite
  \/ TaskLowerStaleNext
  \/ TaskLowerReturn

SpecTaskLower == InitTaskLower /\ [][NextTaskLower]_vars

\* C29: when lowerTask_ has returned, each call of the task function
\* outside the wrapper is erased and has in its place one allocation, the
\* stores of its arguments and one call of __ares_task_queue, and the call
\* inside the wrapper is as it was, however many calls there are
C29_CallSites ==
  tlPc = "done" =>
    \A s \in 1..Len(tlSites) :
      IF tlSites[s].fn = "wrapper"
        THEN tlSites[s].state = "call" /\ tlSites[s].code = <<>>
        ELSE LET code == tlSites[s].code
                 Is(o) == {k \in 1..Len(code) : code[k].op = o}
             IN /\ tlSites[s].state = "erased"
                /\ Cardinality(Is("alloc")) = 1
                /\ Cardinality(Is("task_queue")) = 1
                /\ \A i \in 1..tlNArgs :
                     \E k \in Is("store") : code[k].val = ArgOf(s, i)
                /\ Cardinality(Is("store")) = tlNArgs

\* ------------------------------------------------------------------------
\* One lowered call of a task function with its wrapper: the caller runs
\* the code lowerTask_ put in the place of the call (HLIR.cpp 304-363), a
\* worker runs hlir.task_wrapper as setFunction built it (538-565). The
\* structure is the memory __ares_alloc returned; the task function stands
\* for any function of its arguments that tells their order.
\* ------------------------------------------------------------------------

ArgVals == 1..NumArgVals

RECURSIVE TaskFunction(_)
TaskFunction(args) ==
  IF args = <<>>
    THEN 0
    ELSE TaskFunction(SubSeq(args, 1, Len(args) - 1)) * (NumArgVals + 1)
           + args[Len(args)]

\* setFunction: idx = 3; for each parameter: load of field idx, ++idx
ParamFieldOff(i) == 2 + (i - 1)
ParamField(i) == 3 + (i - 1)

\* the entry block of hlir.task_wrapper for a function of n parameters
WrapperLoads(n) == [i \in 1..n |-> Ins("load", ParamField(i), NoArg)]
WrapperCode(n) ==
  WrapperLoads(n)
    \o <<Ins("call", 0, NoArg), Ins("store", 2, NoArg),
         Ins("task_release_future", 0, NoArg), Ins("ret", 0, NoArg)>>

\* the code at the call site, the call being used
SiteCode == CallSiteCode(1, Len(taArgs)) \o AwaitCode(TRUE)

SiteAt(o) == taSitePc \in 1..Len(SiteCode) /\ SiteCode[taSitePc].op = o
WrapAt(o) ==
  /\ taWrapPc \in 1..Len(WrapperCode(Len(taArgs)))
  /\ WrapperCode(Len(taArgs))[taWrapPc].op = o

\* field f of the structure
Field(f) == f + 1

InitTaskArgs ==
  /\ SemParked
  /\ CaptureParked
  /\ HLIRParked
  /\ DispatchParked
  /\ CreateParked
  /\ ReduceParked
  /\ ForceParked
  /\ LowerParked
  /\ RewriteParked
  /\ TaskLowerParked
  /\ PForParked
  /\ TaskParked
  /\ taArgs \in SeqsUpTo(ArgVals, MaxArgs)
  /\ taMem = <<>>
  /\ taSitePc = 1
  /\ taWrapPc = 0
  /\ taQueue = FALSE
  /\ taRegs = <<>>
  /\ taCalls = <<>>
  /\ taRet = 0
  /\ taVal = 0

\* args.void.ptr = __ares_alloc(size): malloc, the fields hold anything
SiteAlloc ==
  /\ SiteAt("alloc")
  /\ taMem' \in [1..(3 + Len(taArgs)) -> Garbage]
  /\ taSitePc' = taSitePc + 1
  /\ UNCHANGED <<taArgs, taWrapPc, taQueue, taRegs, taCalls, taRet, taVal>>
  /\ UNCHANGED notTaskArgs

\* depth = load depth.ptr (field 1, never written); or, after the await,
\* retVal = load retPtr (field 2)
SiteLoad ==
  /\ SiteAt("load")
  /\ taVal' = IF SiteCode[taSitePc].field = 2 THEN taMem[Field(2)] ELSE taVal
  /\ taSitePc' = taSitePc + 1
  /\ UNCHANGED <<taArgs, taMem, taWrapPc, taQueue, taRegs, taCalls, taRet>>
  /\ UNCHANGED notTaskArgs

\* store arg, arg.ptr
SiteStore ==
  /\ SiteAt("store")
  /\ taMem' = [taMem EXCEPT ![Field(SiteCode[taSitePc].field)] =
                 taArgs[SiteCode[taSitePc].val[2]]]
  /\ taSitePc' = taSitePc + 1
  /\ UNCHANGED <<taArgs, taWrapPc, taQueue, taRegs, taCalls, taRet, taVal>>
  /\ UNCHANGED notTaskArgs

\* __ares_task_queue(wrapper, args): args->futureSync = new Synch(0);
\* _threadPool->push(func, args, 0)
SiteQueue ==
  /\ SiteAt("task_queue")
  /\ taMem' = [taMem EXCEPT ![Field(0)] = SynchCtorCount(0)]
  /\ taQueue' = TRUE
  /\ taSitePc' = taSitePc + 1
  /\ UNCHANGED <<taArgs, taWrapPc, taRegs, taCalls, taRet, taVal>>
  /\ UNCHANGED notTaskArgs

\* __ares_task_await_future(args): args->futureSync->await()
SiteAwait ==
  /\ SiteAt("task_await_future")
  /\ taMem[Field(0)] > 0
  /\ taMem' = [taMem EXCEPT ![Field(0)] = @ - 1]
  /\ taSitePc' = taSitePc + 1
  /\ UNCHANGED <<taArgs, taWrapPc, taQueue, taRegs, taCalls, taRet, taVal>>
  /\ UNCHANGED notTaskArgs

\* a worker takes the item and calls hlir.task_wrapper(args)
WrapTake ==
  /\ taQueue
  /\ taQueue' = FALSE
  /\ taWrapPc' = 1
  /\ UNCHANGED <<taArgs, taMem, taSitePc, taRegs, taCalls, taRet, taVal>>
  /\ UNCHANGED notTaskArgs

\* arg = load arg.ptr; args.push_back(arg)
WrapLoad ==
  /\ WrapAt("load")
  /\ taRegs' =
       Append(taRegs, taMem[Field(WrapperCode(Len(taArgs))[taWrapPc].field)])
  /\ taWrapPc' = taWrapPc + 1
  /\ UNCHANGED <<taArgs, taMem, taSitePc, taQueue, taCalls, taRet, taVal>>
  /\ UNCHANGED notTaskArgs

\* ret = call func(args)
WrapCall ==
  /\ WrapAt("call")
  /\ taCalls' = Append(taCalls, taRegs)
  /\ taRet' = TaskFunction(taRegs)
  /\ taWrapPc' = taWrapPc + 1
  /\ UNCHANGED <<taArgs, taMem, taSitePc, taQueue, taRegs, taVal>>
  /\ UNCHANGED notTaskArgs

\* store ret, retPtr (field 2)
WrapStore ==
  /\ WrapAt("store")
  /\ taMem' = [taMem EXCEPT
                 ![Field(WrapperCode(Len(taArgs))[taWrapPc].field)] = taRet]
  /\ taWrapPc' = taWrapPc + 1
  /\ UNCHANGED <<taArgs, taSitePc, taQueue, taRegs, taCalls, taRet, taVal>>
  /\ UNCHANGED notTaskArgs

\* __ares_task_release_future(args): args->futureSync->release()
WrapReleaseFuture ==
  /\ WrapAt("task_release_future")
  /\ taMem' = [taMem EXCEPT ![Field(0)] = @ + 1]
  /\ taWrapPc' = taWrapPc + 1
  /\ UNCHANGED <<taArgs, taSitePc, taQueue, taRegs, taCalls, taRet, taVal>>
  /\ UNCHANGED notTaskArgs

\* ret void
WrapRet ==
  /\ WrapAt("ret")
  /\ taWrapPc' = taWrapPc + 1
  /\ UNCHANGED <<taArgs, taMem, taSitePc, taQueue, taRegs, taCalls, taRet,
                 taVal>>
  /\ UNCHANGED notTaskArgs

NextTaskArgs ==
  \/ SiteAlloc
  \/ SiteLoad
  \/ SiteStore
  \/ SiteQueue
  \/ SiteAwait
  \/ WrapTake
  \/ WrapLoad
  \/ WrapCall
  \/ WrapStore
  \/ WrapReleaseFuture
  \/ WrapRet

SpecTaskArgs == InitTaskArgs /\ [][NextTaskArgs]_vars

SiteDone == taSitePc = Len(SiteCode) + 1

\* C30: operand i of the call is stored into field 3+i (operands counted
\* from 0) and the wrapper loads parameter i from field 3+i, so that the
\* task function is called once with the operands of the call in their
\* order, and what it returns is in field 2 when the caller has awaited
\* the future and is what the caller loads
C30_ArgRoundTrip ==
  /\ \A k \in 1..Len(taCalls) : taCalls[k] = taArgs
  /\ Len(taCalls) <= 1
  /\ \A i \in 1..Len(taRegs) : taRegs[i] = taArgs[i]
  /\ (taSitePc > Len(CallSiteCode(1, Len(taArgs))) /\ taWrapPc = 0) =>
       \A i \in 1..Len(taArgs) : taMem[Field(3 + (i - 1))] = taArgs[i]
  /\ SiteAt("load") /\ SiteCode[taSitePc].field = 2 =>
       /\ Len(taCalls) = 1
       /\ taMem[Field(2)] = TaskFunction(taArgs)
  /\ SiteDone => taVal = TaskFunction(taArgs)

\* the caller has loaded the result of a call with two different operands
C30_Witness ==
  /\ SiteDone
  /\ Len(taArgs) >= 2
  /\ taArgs[1] /= taArgs[2]
  /\ taCalls = <<taArgs>>

\* ------------------------------------------------------------------------
\* Forcing of the future (hlir/src/HLIR.cpp 347-367): a call of a task
\* function followed, in its block, by instructions of which some use the
\* result. lowerTask_ takes the first use of the use list of the call, and
\* a use list has the use made last at its head. The lowered caller is
\* then run next to one worker that runs hlir.task_wrapper.
\* ------------------------------------------------------------------------

TailShapes == SeqsUpTo({"use", "other"}, MaxTail)
UsersOf(tail) == {p \in 1..Len(tail) : tail[p] = "use"}

\* the orders in which the uses of a call can stand in its use list
UseOrders(tail) ==
  {l \in SeqsUpTo(UsersOf(tail), Cardinality(UsersOf(tail))) :
     /\ Len(l) = Cardinality(UsersOf(tail))
     /\ \A i, j \in 1..Len(l) : l[i] = l[j] => i = j}

InitForce ==
  /\ SemParked
  /\ CaptureParked
  /\ HLIRParked
  /\ DispatchParked
  /\ CreateParked
  /\ ReduceParked
  /\ TaskArgsParked
  /\ TaskLowerParked
  /\ RewriteParked
  /\ LowerParked
  /\ PForParked
  /\ TaskParked
  /\ fcTail \in TailShapes
  /\ fcUseList \in UseOrders(fcTail)
  /\ fcTrips \in 1..MaxTrips
  /\ fcCode = <<>>
  /\ fcPc = "lower"
  /\ fcIp = 0
  /\ fcTrip = 0
  /\ fcFuture = 0
  /\ fcQueued = FALSE
  /\ fcWpc = "idle"
  /\ fcRetVal = "undef"
  /\ fcSlot = "garbage"
  /\ fcReads = <<>>
  /\ fcCalls = [queue |-> 0, await |-> 0, awaited |-> 0, release |-> 0]

\* for(itr = ci->use_begin(); ...): the user of the first use that is an
\* instruction gets the await and the load of field 2 in front of it; break
FirstUserOff(uses) == IF uses = <<>> THEN 1 ELSE uses[1]
FirstUser(uses) == IF uses = <<>> THEN 0 ELSE uses[1]

\* the instructions after the call when the call is lowered: p = 0 when
\* the call has no use
TailCode(tail, p) ==
  IF p = 0
    THEN [k \in 1..Len(tail) |-> Ins(tail[k], 0, NoArg)]
    ELSE [k \in 1..(p - 1) |-> Ins(tail[k], 0, NoArg)]
           \o AwaitCode(TRUE)
           \o [k \in 1..(Len(tail) - p + 1) |-> Ins(tail[p + k - 1], 0, NoArg)]

\* lowerTask_ on the call: the code in front of it (CallSiteCode), the
\* await and the load, ci->replaceAllUsesWith(retVal), the call erased
ForceLower ==
  /\ fcPc = "lower"
  /\ fcCode' = TailCode(fcTail, FirstUser(fcUseList))
  /\ fcPc' = "call"
  /\ UNCHANGED <<fcTail, fcUseList, fcTrips, fcIp, fcTrip, fcFuture, fcQueued,
                 fcWpc, fcRetVal, fcSlot, fcReads, fcCalls>>
  /\ UNCHANGED notForce

\* the caller at the place of the call: __ares_alloc, the stores,
\* __ares_task_queue(wrapper, args): futureSync = new Synch(0), push
ForceCall ==
  /\ fcPc = "call"
  /\ fcFuture' = SynchCtorCount(0)
  /\ fcQueued' = TRUE
  /\ fcCalls' = [fcCalls EXCEPT !.queue = @ + 1]
  /\ fcPc' = "run"
  /\ fcIp' = 1
  /\ fcTrip' = 1
  /\ UNCHANGED <<fcTail, fcUseList, fcTrips, fcCode, fcWpc, fcRetVal, fcSlot,
                 fcReads>>
  /\ UNCHANGED notForce

ForceAt(o) ==
  /\ fcPc = "run"
  /\ fcIp \in 1..Len(fcCode)
  /\ fcCode[fcIp].op = o

\* __ares_task_await_future(args) is called: the caller is inside
\* futureSync->await()
ForceAwaitCall ==
  /\ ForceAt("task_await_future")
  /\ fcPc' = "await"
  /\ fcCalls' = [fcCalls EXCEPT !.await = @ + 1]
  /\ UNCHANGED <<fcTail, fcUseList, fcTrips, fcCode, fcIp, fcTrip, fcFuture,
                 fcQueued, fcWpc, fcRetVal, fcSlot, fcReads>>
  /\ UNCHANGED notForce

\* CVSemaphore::acquire: --count_
CountAfterAcquireOff(c) == c
CountAfterAcquire(c) == c - 1

\* sem_.acquire() returns: the count was above 0 and is taken down by 1
ForceAwaitReturn ==
  /\ fcPc = "await"
  /\ fcFuture > 0
  /\ fcFuture' = CountAfterAcquire(fcFuture)
  /\ fcCalls' = [fcCalls EXCEPT !.awaited = @ + 1]
  /\ fcPc' = "run"
  /\ fcIp' = fcIp + 1
  /\ UNCHANGED <<fcTail, fcUseList, fcTrips, fcCode, fcTrip, fcQueued, fcWpc,
                 fcRetVal, fcSlot, fcReads>>
  /\ UNCHANGED notForce

\* retVal = load retPtr
ForceLoad ==
  /\ ForceAt("load")
  /\ fcRetVal' = fcSlot
  /\ fcIp' = fcIp + 1
  /\ UNCHANGED <<fcTail, fcUseList, fcTrips, fcCode, fcPc, fcTrip, fcFuture,
                 fcQueued, fcWpc, fcSlot, fcReads, fcCalls>>
  /\ UNCHANGED notForce

\* an instruction that had the call as operand and has retVal now
ForceUse ==
  /\ ForceAt("use")
  /\ fcReads' = Append(fcReads, [val |-> fcRetVal,
                                 awaited |-> fcCalls.awaited])
  /\ fcIp' = fcIp + 1
  /\ UNCHANGED <<fcTail, fcUseList, fcTrips, fcCode, fcPc, fcTrip, fcFuture,
                 fcQueued, fcWpc, fcRetVal, fcSlot, fcCalls>>
  /\ UNCHANGED notForce

\* any other instruction
ForceOther ==
  /\ ForceAt("other")
  /\ fcIp' = fcIp + 1
  /\ UNCHANGED <<fcTail, fcUseList, fcTrips, fcCode, fcPc, fcTrip, fcFuture,
                 fcQueued, fcWpc, fcRetVal, fcSlot, fcReads, fcCalls>>
  /\ UNCHANGED notForce

\* the end of the instructions: back to their start while the loop they
\* are in goes on, else the caller is past them
ForceEnd ==
  /\ fcPc = "run"
  /\ fcIp = Len(fcCode) + 1
  /\ IF fcTrip < fcTrips
       THEN fcIp' = 1 /\ fcTrip' = fcTrip + 1 /\ fcPc' = fcPc
       ELSE fcIp' = fcIp /\ fcTrip' = fcTrip /\ fcPc' = "done"
  /\ UNCHANGED <<fcTail, fcUseList, fcTrips, fcCode, fcFuture, fcQueued,
                 fcWpc, fcRetVal, fcSlot, fcReads, fcCalls>>
  /\ UNCHANGED notForce

\* a worker takes the item and enters hlir.task_wrapper
ForceWrapTake ==
  /\ fcQueued
  /\ fcWpc = "idle"
  /\ fcQueued' = FALSE
  /\ fcWpc' = "call"
  /\ UNCHANGED <<fcTail, fcUseList, fcTrips, fcCode, fcPc, fcIp, fcTrip,
                 fcFuture, fcRetVal, fcSlot, fcReads, fcCalls>>
  /\ UNCHANGED notForce

\* the wrapper: the loads, ret = call func(args), store ret, retPtr
ForceWrapStore ==
  /\ fcWpc = "call"
  /\ fcSlot' = "result"
  /\ fcWpc' = "release"
  /\ UNCHANGED <<fcTail, fcUseList, fcTrips, fcCode, fcPc, fcIp, fcTrip,
                 fcFuture, fcQueued, fcRetVal, fcReads, fcCalls>>
  /\ UNCHANGED notForce

\* the wrapper: __ares_task_release_future(args), ret void
ForceWrapRelease ==
  /\ fcWpc = "release"
  /\ fcFuture' = fcFuture + 1
  /\ fcCalls' = [fcCalls EXCEPT !.release = @ + 1]
  /\ fcWpc' = "idle"
  /\ UNCHANGED <<fcTail, fcUseList, fcTrips, fcCode, fcPc, fcIp, fcTrip,
                 fcQueued, fcRetVal, fcSlot, fcReads>>
  /\ UNCHANGED notForce

NextForce ==
  \/ ForceLower
  \/ ForceCall
  \/ ForceAwaitCall
  \/ ForceAwaitReturn
  \/ ForceLoad
  \/ ForceUse
  \/ ForceOther
  \/ ForceEnd
  \/ ForceWrapTake
  \/ ForceWrapStore
  \/ ForceWrapRelease

SpecForce == InitForce /\ [][NextForce]_vars

FairSpecForce == SpecForce /\ WF_vars(NextForce)

Lowered == fcPc \notin {"parked", "lower"}
AwaitsIn(code) == {k \in 1..Len(code) : code[k].op = "task_await_future"}
FirstInProgram(tail) == CHOOSE p \in UsersOf(tail) : \A q \in UsersOf(tail) : p <= q

\* C31: a lowered call whose result is used has exactly one
\* task_await_future, right in front of the first instruction that uses
\* the result, and every use that is executed reads the result after this
\* await has returned
C31_FutureForcing ==
  /\ (Lowered /\ UsersOf(fcTail) /= {}) =>
       AwaitsIn(fcCode) = {FirstInProgram(fcTail)}
  /\ \A k \in 1..Len(fcReads) :
       fcReads[k].awaited >= 1 /\ fcReads[k].val = "result"

\* C32: the wrapper releases the future once for the one task_queue call,
\* the count of the future is 0 or 1, one task_await_future returns if one
\* is executed, and a task_await_future executed a second time on the same
\* structure does not return
C32_SingleShot ==
  /\ [](/\ fcCalls.release <= fcCalls.queue
        /\ fcCalls.queue <= 1
        /\ fcFuture \in {0, 1}
        /\ fcFuture = fcCalls.release - fcCalls.awaited
        /\ fcCalls.awaited <= 1
        /\ (fcWpc = "idle" /\ fcCalls.queue = 1 /\ ~fcQueued) =>
             fcCalls.release = 1)
  /\ [][fcCalls.await >= 2 => fcCalls'.awaited = fcCalls.awaited]_vars
  /\ (fcCalls.await >= 1) ~> (fcCalls.awaited = 1 /\ fcCalls.release = 1)

\* the caller is in task_await_future for the second time, the wrapper has
\* released the future and has returned, the first await has returned
C32_Witness ==
  /\ fcPc = "await"
  /\ fcCalls.await = 2
  /\ fcCalls.awaited = 1
  /\ fcCalls.release = 1
  /\ fcWpc = "idle"
  /\ fcFuture = 0

Unused == UsersOf(fcTail) = {}

\* C33: a lowered call whose result no instruction uses has no
\* task_await_future; its task is queued and run all the same, and the
\* caller goes past the call and on to the end without waiting for it
C33_UnusedResult ==
  /\ []((Lowered /\ Unused) =>
          /\ AwaitsIn(fcCode) = {}
          /\ fcCalls.await = 0
          /\ fcPc /= "await"
          /\ (fcPc \in {"run", "done"} => fcCalls.queue = 1))
  /\ (fcPc = "call" /\ Unused) ~> (fcPc = "done")
  /\ (fcPc = "call" /\ Unused) ~> (fcSlot = "result" /\ fcCalls.release = 1)

\* the caller is past a call of unused result while the task has not yet
\* been taken by a worker
C33_Witness ==
  /\ Unused
  /\ fcTail /= <<>>
  /\ fcPc = "done"
  /\ fcQueued
  /\ fcCalls.release = 0

\* the structures whose task_queue call has returned: the item is in the
\* queue, or a worker has it, or its wrapper has released the future
QueueReturned(c) ==
  \/ \E k \in 1..Len(poolQueue) : poolQueue[k].arg = c
  \/ \E w \in Workers : wpc[w] \notin {"idle", "absent"} /\ witem[w].arg = c
  \/ taskArgs[c].released
InTaskQueue == mpc = "queuePush" \/ \E w \in Workers : wpc[w] \in {"push1", "push2"}
BeforeTaskQueue ==
  mpc = "queueStore" \/ \E w \in Workers : wpc[w] \in {"store1", "store2"}
LiveFutures == {c \in 1..Len(taskArgs) : taskArgs[c].hasFuture}

\* C34: no structure of task arguments and no future is ever given back:
\* the structures allocated stay, a future once made stays, and whenever
\* no thread is between __ares_alloc and the return of task_queue the
\* structures and the futures are as many as the task_queue calls made
C34_NeverReclaimed ==
  /\ [][/\ Len(taskArgs') >= Len(taskArgs)
        /\ \A c \in LiveFutures :
             taskArgs'[c].hasFuture /\ taskArgs'[c].futureId = taskArgs[c].futureId
       ]_vars
  /\ [](\A c \in 1..Len(taskArgs) : QueueReturned(c) => c \in LiveFutures)
  /\ [](~InTaskQueue /\ ~BeforeTaskQueue =>
          /\ Cardinality(LiveFutures) = Len(taskArgs)
          /\ \A c \in 1..Len(taskArgs) : QueueReturned(c))

\* main has loaded the result of fib(2) or more: three tasks at least were
\* launched and awaited, and their structures and futures are all there
C34_Witness ==
  /\ mpc = "done"
  /\ Len(taskArgs) >= 3
  /\ Cardinality(LiveFutures) = Len(taskArgs)
  /\ \A c \in 1..Len(taskArgs) : taskArgs[c].released

\* ------------------------------------------------------------------------
\* lowerParallelReduce_ (hlir/src/HLIR.cpp 278-282) on a caller that holds
\* the marker of the reduce among other instructions, and the body function
\* the HLIRParallelReduce constructor built (447-509); the lowered caller is
\* then run.
\* ------------------------------------------------------------------------

RuntimeCalls ==
  {"__ares_create_synch", "__ares_queue_func", "__ares_await_synch"}
CallerOps == {"other", "marker"} \cup RuntimeCalls

\* entry block of hlir.parallel_reduce.body as the constructor leaves it
ReduceBody ==
  <<"alloca", "bitcast", "load synch.ptr", "gep index.ptr",
    "load funcArgs.ptr", "noop", "bitcast", "call __ares_finish_func",
    "load reduceVar", "ret">>

\* marker->removeFromParent(): the marker is unlinked from its block
RemoveFromParentOff(insts, m) == insts
RemoveFromParent(insts, m) ==
  [k \in 1..(Len(insts) - 1) |-> IF k < m THEN insts[k] ELSE insts[k + 1]]

MarkerIn(insts) == CHOOSE m \in 1..Len(insts) : insts[m] = "marker"

InitReduce ==
  /\ SemParked
  /\ CaptureParked
  /\ HLIRParked
  /\ DispatchParked
  /\ CreateParked
  /\ ForceParked
  /\ TaskArgsParked
  /\ TaskLowerParked
  /\ RewriteParked
  /\ LowerParked
  /\ PForParked
  /\ TaskParked
  /\ rdCaller \in SeqsUpTo(CallerOps, MaxCaller)
  /\ Cardinality({m \in 1..Len(rdCaller) : rdCaller[m] = "marker"}) = 1
  /\ rdBody = ReduceBody
  /\ rdCaller0 = rdCaller
  /\ rdPc = "lower"
  /\ rdIp = 0
  /\ rdQueued = 0

\* lowerParallelReduce_(r)
ReduceLower ==
  /\ rdPc = "lower"
  /\ rdCaller' = RemoveFromParent(rdCaller, MarkerIn(rdCaller))
  /\ rdPc' = "run"
  /\ rdIp' = 1
  /\ UNCHANGED <<rdBody, rdCaller0, rdQueued>>
  /\ UNCHANGED notReduce

\* the lowered caller executes its next instruction: a queue_func call
\* puts an item into the pool, the marker (a no-op) and the rest do not
ReduceCallerStep ==
  /\ rdPc = "run"
  /\ rdIp <= Len(rdCaller)
  /\ rdQueued' = IF rdCaller[rdIp] = "__ares_queue_func"
                   THEN rdQueued + 1 ELSE rdQueued
  /\ rdIp' = rdIp + 1
  /\ UNCHANGED <<rdCaller, rdBody, rdCaller0, rdPc>>
  /\ UNCHANGED notReduce

ReduceCallerEnd ==
  /\ rdPc = "run"
  /\ rdIp = Len(rdCaller) + 1
  /\ rdPc' = "done"
  /\ UNCHANGED <<rdCaller, rdBody, rdCaller0, rdIp, rdQueued>>
  /\ UNCHANGED notReduce

NextReduce ==
  \/ ReduceLower
  \/ ReduceCallerStep
  \/ ReduceCallerEnd

SpecReduce == InitReduce /\ [][NextReduce]_vars

Without(insts, o) == LET Keep(x) == x /= o IN SelectSeq(insts, Keep)
Count(insts, o) == Cardinality({k \in 1..Len(insts) : insts[k] = o})

SemWakeProgress ==
  \E t \in Threads :
    \/ Lock(t)
    \/ Test(t)
    \/ Relock(t)
    \/ Dec(t)
    \/ Unlock(t)
    \/ Incr(t)
    \/ Signal(t)
    \/ UnlockRelease(t)

NextSemWake ==
  \/ \E t \in Threads : \E o \in {"acquire", "release"} : Call(t, o)
  \/ \E t \in Threads : SpuriousWake(t)
  \/ SemWakeProgress

FairSpecSemWake ==
  InitSem /\ [][NextSemWake]_vars /\ WF_vars(SemWakeProgress)

\* the threads blocked inside acquire(): in pthread_cond_wait, or woken
\* and not yet back in possession of the mutex
BlockedInAcquire ==
  {t \in Threads : op[t] = "acquire" /\ pc[t] \in {"wait", "relock"}}
Returned(t) == pc[t] = "idle" /\ result[t] = "true"

\* C36: no wake-up is lost: a state with count > 0 and a thread blocked in
\* acquire() does not last, a blocked acquire returns or the count is taken
\* by another acquire; so of w waiters and a count c left by the releases
\* min(w, c) return, though each release signals one waiter only
C36_NoLostWakeup ==
  /\ []<>(count <= 0 \/ BlockedInAcquire = {})
  /\ \A t \in Threads :
       (t \in BlockedInAcquire /\ count > 0)
         ~> (Returned(t) \/ count <= 0)

\* two threads are blocked in acquire() and two releases have made the
\* count 2 while only one of them has been signalled so far
C36_Witness ==
  /\ count = 2
  /\ Cardinality(BlockedInAcquire) = 2
  /\ \E t \in BlockedInAcquire : pc[t] = "wait"

\* C37: acquire(dt) returns false only when nothing is available: at the
\* step in which it unlocks the mutex and returns false, count <= 0; a
\* release that completed before the timed-out waiter had the mutex back
\* makes it return true
C37_TimedFail ==
  [][\A t \in Threads :
       (op[t] = "timedAcquire" /\ result[t] = "none" /\ result'[t] = "false")
         => count <= 0]_vars

\* ------------------------------------------------------------------------
\* createParallelFor / createParallelReduce / createTask called from
\* several threads (hlir/src/HLIR.cpp). The three functions take no lock:
\* constructs_.push_back and _nextId++ of two threads are unsynchronised
\* accesses to the same object. Each is modelled by its read and its write
\* as two steps, so that the outcomes of the race are the interleavings:
\* both updates kept, or the later write undoing the earlier one.
\* ------------------------------------------------------------------------

\* auto c = new C(this), on a module getModule returned to the caller
CreateNew(t, h, kind) ==
  /\ gpc[t] = "idle"
  /\ crPc[t] = "idle"
  /\ h \in {r.m : r \in {q \in returned : q.t = t}}
  /\ Len(objs) < MaxCreates
  /\ objs' = Append(objs, [kind |-> kind, name |-> <<>>, owner |-> h])
  /\ crLoc' = [crLoc EXCEPT ![t] = [h |-> h, c |-> Len(objs) + 1,
                                    end |-> 0, id |-> 0]]
  /\ crPc' = [crPc EXCEPT ![t] = "pushRead"]
  /\ UNCHANGED <<nextId, moduleMap, moduleNameMap, hmods, gmutex, gpc, gloc,
                 returned>>
  /\ UNCHANGED notCreateHLIR

\* constructs_.push_back(c): the end of the vector is read
CreatePushRead(t) ==
  /\ crPc[t] = "pushRead"
  /\ crLoc' = [crLoc EXCEPT ![t].end = Len(hmods[crLoc[t].h].constructs)]
  /\ crPc' = [crPc EXCEPT ![t] = "pushWrite"]
  /\ UNCHANGED hlirVars
  /\ UNCHANGED notCreateHLIR

\* the vector after c was stored at the end that was read and the end set
\* behind it
PushBackAtOff(list, end, c) == list
PushBackAt(list, end, c) == SubSeq(list, 1, end) \o <<c>>

\* constructs_.push_back(c): the element and the new end are written
CreatePushWrite(t) ==
  /\ crPc[t] = "pushWrite"
  /\ hmods' = [hmods EXCEPT ![crLoc[t].h].constructs =
                              PushBackAt(@, crLoc[t].end, crLoc[t].c)]
  /\ crPc' = [crPc EXCEPT ![t] = "idRead"]
  /\ UNCHANGED <<nextId, moduleMap, moduleNameMap, objs, gmutex, gpc, gloc,
                 returned, crLoc>>
  /\ UNCHANGED notCreateHLIR

\* createId(): _nextId++ reads _nextId
CreateIdRead(t) ==
  /\ crPc[t] = "idRead"
  /\ crLoc' = [crLoc EXCEPT ![t].id = nextId]
  /\ crPc' = [crPc EXCEPT ![t] = "idWrite"]
  /\ UNCHANGED hlirVars
  /\ UNCHANGED notCreateHLIR

\* createId(): _nextId++ writes the value it read plus one
CreateIdWrite(t) ==
  /\ crPc[t] = "idWrite"
  /\ nextId' = CreateIdNext(crLoc[t].id)
  /\ crPc' = [crPc EXCEPT ![t] = "setName"]
  /\ UNCHANGED <<moduleMap, moduleNameMap, hmods, objs, gmutex, gpc, gloc,
                 returned, crLoc>>
  /\ UNCHANGED notCreateHLIR

\* string name = prefix + toStr(id); c->setName(name); (*this)[name] = c;
\* return c
CreateSetName(t) ==
  /\ crPc[t] = "setName"
  /\ LET c == crLoc[t].c
         name == KindPrefix(objs[c].kind) \o ToStr(crLoc[t].id)
     IN /\ objs' = [objs EXCEPT ![c].name = name]
        /\ hmods' = [hmods EXCEPT ![crLoc[t].h].byName = MapStore(@, name, c)]
  /\ crPc' = [crPc EXCEPT ![t] = "idle"]
  /\ crLoc' = [crLoc EXCEPT ![t] = NoCreate]
  /\ UNCHANGED <<nextId, moduleMap, moduleNameMap, gmutex, gpc, gloc,
                 returned>>
  /\ UNCHANGED notCreateHLIR

\* a thread not inside a create call calls getModule
CreateGetModuleCall(t, ir) ==
  /\ crPc[t] = "idle"
  /\ GetModuleCall(t, ir)

\* every thread calls getModule and the three create functions
NextCreate ==
  \/ \E t \in Callers, ir \in IRModules : CreateGetModuleCall(t, ir)
  \/ \E t \in Callers : GetModuleGuard(t)
  \/ \E t \in Callers : GetModuleFind(t)
  \/ \E t \in Callers : GetModuleNew(t)
  \/ \E t \in Callers : GetModuleInsert(t)
  \/ \E t \in Callers : GetModuleInsertName(t)
  \/ \E t \in Callers : GetModuleReturn(t)
  \/ \E t \in Callers, h \in 1..NumIRModules, kind \in ConstructKinds :
       CreateNew(t, h, kind)
  \/ \E t \in Callers : CreatePushRead(t)
  \/ \E t \in Callers : CreatePushWrite(t)
  \/ \E t \in Callers : CreateIdRead(t)
  \/ \E t \in Callers : CreateIdWrite(t)
  \/ \E t \in Callers : CreateSetName(t)

SpecCreate == InitHLIR /\ [][NextCreate]_vars

\* the constructs whose create call has returned
Created == {c \in Constructs : objs[c].name /= <<>>}

\* C38: ids are unique under concurrency. With the create functions and
\* getModule called from several threads at the same time, no two constructs
\* or modules carry the same id, and the construct list of a module holds
\* every construct created in it exactly once.
C38_UniqueIds ==
  /\ \A c, d \in Created :
       c /= d => IdOf(objs[c].name) /= IdOf(objs[d].name)
  /\ \A c \in Created, h \in 1..Len(hmods) :
       IdOf(objs[c].name) /= IdOf(hmods[h].name)
  /\ \A c \in Created :
       LET list == hmods[objs[c].owner].constructs IN
         Cardinality({k \in 1..Len(list) : list[k] = c}) = 1

\* ------------------------------------------------------------------------
\* MessageDispatcher and Communicator (runtime/runtime.cpp): send(),
\* receive() and barrier() called from NumUsers threads, runSend and
\* runReceive on the dispatcher's two threads. One step per statement; a
\* VSem acquire() is the step that finds the count positive and decrements
\* it, a release() the step that increments it (the semaphores have no
\* maxCount).
\* ------------------------------------------------------------------------

dsSendSide == <<dsSendQ, dsSendSem, dsSendMu>>
dsRecvSide == <<dsRecvQ, dsRecvSem, dsRecvMu>>
dsThreads == <<dsSender, dsRecver>>
dsBar == <<dsGroup, dsBarrier, dsBarMsgs, dsBarReturns>>
dsLogs == <<dsMade, dsArrived, dsSent, dsWire, dsGot, dsPopEmpty>>

MsgTypes == {"raw", "barrier"}

InitDispatch ==
  /\ SemParked
  /\ PForParked
  /\ TaskParked
  /\ CaptureParked
  /\ HLIRParked
  /\ LowerParked
  /\ RewriteParked
  /\ TaskLowerParked
  /\ TaskArgsParked
  /\ ForceParked
  /\ ReduceParked
  /\ CreateParked
  /\ DispatchParked

\* Communicator::addDispatcher: the threads running runSend and runReceive
\* are started
AddDispatcher ==
  /\ dsSender.pc = "parked"
  /\ dsSender' = [dsSender EXCEPT !.pc = "acquire"]
  /\ dsRecver' = [dsRecver EXCEPT !.pc = "receive"]
  /\ UNCHANGED <<dsSendSide, dsRecvSide, dsUser, dsBar, dsLogs>>
  /\ UNCHANGED notDispatch

\* Communicator::init(groupSize): barrier_ = new Barrier(2 - groupSize)
CommInit(g) ==
  /\ dsGroup = 0
  /\ dsGroup' = g
  /\ dsBarrier' = 2 - g
  /\ UNCHANGED <<dsSendSide, dsRecvSide, dsUser, dsThreads, dsBarMsgs,
                 dsBarReturns, dsLogs>>
  /\ UNCHANGED notDispatch

\* a thread calls send(msg) with a message of its own
SendCall(u) ==
  /\ dsSender.pc /= "parked"
  /\ dsUser[u].pc = "idle"
  /\ dsMade < MaxSends
  /\ dsMade' = dsMade + 1
  /\ dsUser' = [dsUser EXCEPT ![u] = [pc |-> "sLock", op |-> "send",
                                      msg |-> <<"raw", dsMade + 1>>]]
  /\ UNCHANGED <<dsSendSide, dsRecvSide, dsThreads, dsBar, dsArrived, dsSent,
                 dsWire, dsGot, dsPopEmpty>>
  /\ UNCHANGED notDispatch

\* barrier(): assert(barrier_); BarrierMessage bm;
\* auto msg = new MessageBuffer(bm, true); send(msg) is entered
BarrierCall(u) ==
  /\ dsSender.pc /= "parked"
  /\ dsGroup /= 0
  /\ dsUser[u].pc = "idle"
  /\ dsMade < MaxSends
  /\ dsMade' = dsMade + 1
  /\ dsUser' = [dsUser EXCEPT ![u] = [pc |-> "sLock", op |-> "barrier",
                                      msg |-> <<"barrier", dsMade + 1>>]]
  /\ UNCHANGED <<dsSendSide, dsRecvSide, dsThreads, dsBar, dsArrived, dsSent,
                 dsWire, dsGot, dsPopEmpty>>
  /\ UNCHANGED notDispatch

\* send: sendMutex_.lock()
SendLock(u) ==
  /\ dsUser[u].pc = "sLock"
  /\ dsSendMu = 0
  /\ dsSendMu' = u
  /\ dsUser' = [dsUser EXCEPT ![u].pc = "sPush"]
  /\ UNCHANGED <<dsSendQ, dsSendSem, dsRecvSide, dsThreads, dsBar, dsLogs>>
  /\ UNCHANGED notDispatch

\* send: sendQueue_.push_back(msg)
SendPush(u) ==
  /\ dsUser[u].pc = "sPush"
  /\ dsSendQ' = Append(dsSendQ, dsUser[u].msg)
  /\ dsSent' = Append(dsSent, dsUser[u].msg)
  /\ dsUser' = [dsUser EXCEPT ![u].pc = "sUnlock"]
  /\ UNCHANGED <<dsSendSem, dsSendMu, dsRecvSide, dsThreads, dsBar, dsMade,
                 dsArrived, dsWire, dsGot, dsPopEmpty>>
  /\ UNCHANGED notDispatch

\* send: sendMutex_.unlock()
SendUnlock(u) ==
  /\ dsUser[u].pc = "sUnlock"
  /\ dsSendMu' = 0
  /\ dsUser' = [dsUser EXCEPT ![u].pc = "sRelease"]
  /\ UNCHANGED <<dsSendQ, dsSendSem, dsRecvSide, dsThreads, dsBar, dsLogs>>
  /\ UNCHANGED notDispatch

\* send: sendSem_.release(), and send returns; barrier() goes on to
\* barrier_->acquire()
SendRelease(u) ==
  /\ dsUser[u].pc = "sRelease"
  /\ dsSendSem' = dsSendSem + 1
  /\ dsUser' = [dsUser EXCEPT ![u] =
                  IF dsUser[u].op = "barrier"
                    THEN [pc |-> "bAcquire", op |-> "barrier", msg |-> NoMsg]
                    ELSE [pc |-> "idle", op |-> "none", msg |-> NoMsg]]
  /\ UNCHANGED <<dsSendQ, dsSendMu, dsRecvSide, dsThreads, dsBar, dsLogs>>
  /\ UNCHANGED notDispatch

\* barrier: barrier_->acquire() returns, and barrier() with it
BarrierAcquire(u) ==
  /\ dsUser[u].pc = "bAcquire"
  /\ dsBarrier > 0
  /\ dsBarrier' = dsBarrier - 1
  /\ dsBarReturns' = Append(dsBarReturns, dsBarMsgs)
  /\ dsUser' = [dsUser EXCEPT ![u] = [pc |-> "idle", op |-> "none",
                                      msg |-> NoMsg]]
  /\ UNCHANGED <<dsSendSide, dsRecvSide, dsThreads, dsGroup, dsBarMsgs,
                 dsLogs>>
  /\ UNCHANGED notDispatch

\* a thread calls receive()
ReceiveCall(u) ==
  /\ dsSender.pc /= "parked"
  /\ dsUser[u].pc = "idle"
  /\ dsUser' = [dsUser EXCEPT ![u] = [pc |-> "rAcquire", op |-> "receive",
                                      msg |-> NoMsg]]
  /\ UNCHANGED <<dsSendSide, dsRecvSide, dsThreads, dsBar, dsLogs>>
  /\ UNCHANGED notDispatch

\* receive: receiveSem_.acquire()
ReceiveAcquire(u) ==
  /\ dsUser[u].pc = "rAcquire"
  /\ dsRecvSem > 0
  /\ dsRecvSem' = dsRecvSem - 1
  /\ dsUser' = [dsUser EXCEPT ![u].pc = "rLock"]
  /\ UNCHANGED <<dsSendSide, dsRecvQ, dsRecvMu, dsThreads, dsBar, dsLogs>>
  /\ UNCHANGED notDispatch

\* receive: receiveMutex_.lock()
ReceiveLock(u) ==
  /\ dsUser[u].pc = "rLock"
  /\ dsRecvMu = 0
  /\ dsRecvMu' = u
  /\ dsUser' = [dsUser EXCEPT ![u].pc = "rPop"]
  /\ UNCHANGED <<dsSendSide, dsRecvQ, dsRecvSem, dsThreads, dsBar, dsLogs>>
  /\ UNCHANGED notDispatch

\* the deque after pop_front()
PopFrontOff(q) == q
PopFront(q) == Tail(q)

\* what front() can yield on an empty deque: the behaviour is undefined,
\* any message that was ever in a queue or none
StaleFront == {NoMsg} \cup {dsSent[k] : k \in 1..Len(dsSent)}

\* receive: MessageBuffer* msg = receiveQueue_.front();
\* receiveQueue_.pop_front()
ReceivePop(u) ==
  /\ dsUser[u].pc = "rPop"
  /\ IF dsRecvQ = <<>>
       THEN /\ dsPopEmpty' = TRUE
            /\ \E m \in StaleFront : dsUser' = [dsUser EXCEPT ![u].msg = m,
                                                             ![u].pc = "rUnlock"]
            /\ UNCHANGED dsRecvQ
       ELSE /\ dsUser' = [dsUser EXCEPT ![u].msg = Head(dsRecvQ),
                                        ![u].pc = "rUnlock"]
            /\ dsRecvQ' = PopFront(dsRecvQ)
            /\ UNCHANGED dsPopEmpty
  /\ UNCHANGED <<dsSendSide, dsRecvSem, dsRecvMu, dsThreads, dsBar, dsMade,
                 dsArrived, dsSent, dsWire, dsGot>>
  /\ UNCHANGED notDispatch

\* receive: receiveMutex_.unlock(); return msg
ReceiveReturn(u) ==
  /\ dsUser[u].pc = "rUnlock"
  /\ dsRecvMu' = 0
  /\ dsGot' = Append(dsGot, dsUser[u].msg)
  /\ dsUser' = [dsUser EXCEPT ![u] = [pc |-> "idle", op |-> "none",
                                      msg |-> NoMsg]]
  /\ UNCHANGED <<dsSendSide, dsRecvQ, dsRecvSem, dsThreads, dsBar, dsMade,
                 dsArrived, dsSent, dsWire, dsPopEmpty>>
  /\ UNCHANGED notDispatch

\* runSend: sendSem_.acquire()
RunSendAcquire ==
  /\ dsSender.pc = "acquire"
  /\ dsSendSem > 0
  /\ dsSendSem' = dsSendSem - 1
  /\ dsSender' = [dsSender EXCEPT !.pc = "lock"]
  /\ UNCHANGED <<dsSendQ, dsSendMu, dsRecvSide, dsUser, dsRecver, dsBar,
                 dsLogs>>
  /\ UNCHANGED notDispatch

\* runSend: sendMutex_.lock()
RunSendLock ==
  /\ dsSender.pc = "lock"
  /\ dsSendMu = 0
  /\ dsSendMu' = SendThread
  /\ dsSender' = [dsSender EXCEPT !.pc = "pop"]
  /\ UNCHANGED <<dsSendQ, dsSendSem, dsRecvSide, dsUser, dsRecver, dsBar,
                 dsLogs>>
  /\ UNCHANGED notDispatch

\* runSend: MessageBuffer* msg = sendQueue_.front(); sendQueue_.pop_front()
RunSendPop ==
  /\ dsSender.pc = "pop"
  /\ IF dsSendQ = <<>>
       THEN /\ dsPopEmpty' = TRUE
            /\ \E m \in StaleFront : dsSender' = [pc |-> "unlock", msg |-> m]
            /\ UNCHANGED dsSendQ
       ELSE /\ dsSender' = [pc |-> "unlock", msg |-> Head(dsSendQ)]
            /\ dsSendQ' = PopFront(dsSendQ)
            /\ UNCHANGED dsPopEmpty
  /\ UNCHANGED <<dsSendSem, dsSendMu, dsRecvSide, dsUser, dsRecver, dsBar,
                 dsMade, dsArrived, dsSent, dsWire, dsGot>>
  /\ UNCHANGED notDispatch

\* runSend: sendMutex_.unlock()
RunSendUnlock ==
  /\ dsSender.pc = "unlock"
  /\ dsSendMu' = 0
  /\ dsSender' = [dsSender EXCEPT !.pc = "transmit"]
  /\ UNCHANGED <<dsSendQ, dsSendSem, dsRecvSide, dsUser, dsRecver, dsBar,
                 dsLogs>>
  /\ UNCHANGED notDispatch

\* runSend: the size and type, then the buffer, are written to the send
\* channel; delete msg
RunSendTransmit ==
  /\ dsSender.pc = "transmit"
  /\ dsWire' = Append(dsWire, dsSender.msg)
  /\ dsSender' = [pc |-> "acquire", msg |-> NoMsg]
  /\ UNCHANGED <<dsSendSide, dsRecvSide, dsUser, dsRecver, dsBar, dsMade,
                 dsArrived, dsSent, dsGot, dsPopEmpty>>
  /\ UNCHANGED notDispatch

\* runReceive: a message of either type is read from the receive channel;
\* the peers send barrier messages to a communicator that was initialised
RunReceiveChannel(type) ==
  /\ dsRecver.pc = "receive"
  /\ dsArrived < MaxIncoming
  /\ type = "barrier" => dsGroup /= 0
  /\ dsArrived' = dsArrived + 1
  /\ dsRecver' = [pc |-> "handle", msg |-> <<type, dsArrived + 1>>]
  /\ UNCHANGED <<dsSendSide, dsRecvSide, dsUser, dsSender, dsBar, dsMade,
                 dsSent, dsWire, dsGot, dsPopEmpty>>
  /\ UNCHANGED notDispatch

\* runReceive: if(handler_->handleMessage(msg)){ delete msg; continue; }
\* Communicator::handleMessage releases the barrier on a Barrier message and
\* returns true, and returns false on every other message
RunReceiveHandle ==
  /\ dsRecver.pc = "handle"
  /\ IF dsRecver.msg[1] = "barrier"
       THEN /\ dsBarrier' = dsBarrier + 1
            /\ dsBarMsgs' = dsBarMsgs + 1
            /\ dsRecver' = [pc |-> "receive", msg |-> NoMsg]
       ELSE /\ dsRecver' = [dsRecver EXCEPT !.pc = "lock"]
            /\ UNCHANGED <<dsBarrier, dsBarMsgs>>
  /\ UNCHANGED <<dsSendSide, dsRecvSide, dsUser, dsSender, dsGroup,
                 dsBarReturns, dsLogs>>
  /\ UNCHANGED notDispatch

\* runReceive: receiveMutex_.lock()
RunReceiveLock ==
  /\ dsRecver.pc = "lock"
  /\ dsRecvMu = 0
  /\ dsRecvMu' = ReceiveThread
  /\ dsRecver' = [dsRecver EXCEPT !.pc = "push"]
  /\ UNCHANGED <<dsSendSide, dsRecvQ, dsRecvSem, dsUser, dsSender, dsBar,
                 dsLogs>>
  /\ UNCHANGED notDispatch

\* runReceive: receiveQueue_.push_back(msg)
RunReceivePush ==
  /\ dsRecver.pc = "push"
  /\ dsRecvQ' = Append(dsRecvQ, dsRecver.msg)
  /\ dsRecver' = [pc |-> "unlock", msg |-> NoMsg]
  /\ UNCHANGED <<dsSendSide, dsRecvSem, dsRecvMu, dsUser, dsSender, dsBar,
                 dsLogs>>
  /\ UNCHANGED notDispatch

\* runReceive: receiveMutex_.unlock()
RunReceiveUnlock ==
  /\ dsRecver.pc = "unlock"
  /\ dsRecvMu' = 0
  /\ dsRecver' = [dsRecver EXCEPT !.pc = "release"]
  /\ UNCHANGED <<dsSendSide, dsRecvQ, dsRecvSem, dsUser, dsSender, dsBar,
                 dsLogs>>
  /\ UNCHANGED notDispatch

\* runReceive: receiveSem_.release()
RunReceiveRelease ==
  /\ dsRecver.pc = "release"
  /\ dsRecvSem' = dsRecvSem + 1
  /\ dsRecver' = [dsRecver EXCEPT !.pc = "receive"]
  /\ UNCHANGED <<dsSendSide, dsRecvQ, dsRecvMu, dsUser, dsSender, dsBar,
                 dsLogs>>
  /\ UNCHANGED notDispatch

NextDispatch ==
  \/ AddDispatcher
  \/ \E g \in 1..MaxGroup : CommInit(g)
  \/ \E u \in Users : SendCall(u)
  \/ \E u \in Users : BarrierCall(u)
  \/ \E u \in Users : SendLock(u)
  \/ \E u \in Users : SendPush(u)
  \/ \E u \in Users : SendUnlock(u)
  \/ \E u \in Users : SendRelease(u)
  \/ \E u \in Users : BarrierAcquire(u)
  \/ \E u \in Users : ReceiveCall(u)
  \/ \E u \in Users : ReceiveAcquire(u)
  \/ \E u \in Users : ReceiveLock(u)
  \/ \E u \in Users : ReceivePop(u)
  \/ \E u \in Users : ReceiveReturn(u)
  \/ RunSendAcquire
  \/ RunSendLock
  \/ RunSendPop
  \/ RunSendUnlock
  \/ RunSendTransmit
  \/ \E type \in MsgTypes : RunReceiveChannel(type)
  \/ RunReceiveHandle
  \/ RunReceiveLock
  \/ RunReceivePush
  \/ RunReceiveUnlock
  \/ RunReceiveRelease

SpecDispatch == InitDispatch /\ [][NextDispatch]_vars

\* ------------------------------------------------------------------------
\* Properties of the dispatcher and the barrier (SpecDispatch)
\* ------------------------------------------------------------------------

\* the message runSend has taken from the queue and not yet written
SenderHand ==
  IF dsSender.pc \in {"unlock", "transmit"} THEN <<dsSender.msg>> ELSE <<>>

\* C39: the dispatcher queues are never popped empty. In every reachable
\* state the count of sendSem is at most the length of sendQueue and the
\* count of receiveSem at most the length of receiveQueue, so that runSend
\* and receive() reach front() / pop_front() on a non-empty deque only; and
\* the messages pushed by send() are, in that order, the ones written to the
\* channel, the one runSend holds and the ones still queued: each is
\* transmitted once, in send() order.
C39_QueuesNeverEmpty ==
  /\ dsSendSem <= Len(dsSendQ)
  /\ dsRecvSem <= Len(dsRecvQ)
  /\ ~dsPopEmpty
  /\ dsSender.pc = "pop" => dsSendQ /= <<>>
  /\ \A u \in Users : dsUser[u].pc = "rPop" => dsRecvQ /= <<>>
  /\ dsSent = dsWire \o SenderHand \o dsSendQ

\* two messages passed to send() have been transmitted and runSend waits
\* again on an empty queue; receive() has returned a message to one
\* thread while the other is blocked in it
C39_Witness ==
  /\ Len(dsWire) = 2
  /\ dsSender.pc = "acquire"
  /\ dsSendQ = <<>>
  /\ Len(dsGot) >= 1
  /\ \E u \in Users : dsUser[u].pc = "rAcquire" /\ dsRecvSem = 0

\* C40: the barrier is reusable. After init(groupSize) the k-th return of
\* barrier() comes only after k * (groupSize - 1) barrier messages were
\* received, groupSize - 1 for each barrier; and no barrier message is
\* returned by receive().
C40_BarrierReusable ==
  /\ \A k \in 1..Len(dsBarReturns) : dsBarReturns[k] >= k * (dsGroup - 1)
  /\ \A k \in 1..Len(dsGot) : dsGot[k][1] /= "barrier"

====
